---- MODULE Spec2Model ----
(***************************************************************************)
(* Model of the typescene binding engine (Binding, Binding.Bound), the     *)
(* service registry (ManagedService) and the UIModalController.            *)
(*                                                                         *)
(* The specifications share the module; each one moves the variables of    *)
(* one subsystem and leaves the others alone:                              *)
(*   SpecBound    Binding readers and Bound.updateComponents (SpecNested:  *)
(*                the same for format bindings and and / or bindings;      *)
(*                SpecShared: two nested bindings on one property)         *)
(*   SpecReader   the Binding constructor, addFilter and Reader.getValue   *)
(*   SpecFormat   the StringFormatBinding constructor and its reader       *)
(*                (SpecChain: several format bindings, one Binding         *)
(*                given to more than one of them)                          *)
(*   SpecService  ManagedService.register / find and the @service slots    *)
(*   SpecModal    UIModalController and its onModalChange observer         *)
(*                (SpecRender: the defaults the proxy sets on an output)   *)
(***************************************************************************)
EXTENDS Integers, Sequences, FiniteSets, TLC

(***************************************************************************)
(* JavaScript values.  A string is a sequence of one-character strings.    *)
(* Every value is a record of the same shape:                              *)
(*   t   the kind: "undefined", "null", "boolean", "number", "nan",        *)
(*       "string", "object" (a plain object), "blank" (the wrapper object  *)
(*       that _blankFormatter returns)                                     *)
(*   n   the number (booleans: 0 / 1)                                      *)
(*   s   the characters of a string                                        *)
(*   r   the identity of a plain object                                    *)
(*   it  for a blank wrapper: the kind of the wrapped value (which is      *)
(*       held in n, s, r)                                                  *)
(*   w   for a blank wrapper: the identity of the wrapper object           *)
(***************************************************************************)
Val(t, n, s, r) == [t |-> t, n |-> n, s |-> s, r |-> r, it |-> "", w |-> 0]

Undefined == Val("undefined", 0, <<>>, 0)

Null == Val("null", 0, <<>>, 0)

Bool(b) == Val("boolean", IF b THEN 1 ELSE 0, <<>>, 0)

Num(n) == Val("number", n, <<>>, 0)

NaN == Val("nan", 0, <<>>, 0)

Str(s) == Val("string", 0, s, 0)

Obj(r) == Val("object", 0, <<>>, r)

\* the object _blankFormatter returns: toString() is "", valueOf() is d
BlankObj(d, w) == [t |-> "blank", n |-> d.n, s |-> d.s, r |-> d.r, it |-> d.t, w |-> w]

\* x.valueOf() of a value that is neither undefined nor null
ValueOf(x) == IF x.t = "blank" THEN Val(x.it, x.n, x.s, x.r) ELSE x

\* typeof x === "object"
IsObjectType(x) == x.t \in {"null", "object", "blank"}

\* x != undefined  (loose inequality: false for undefined and for null)
NotNullish(x) == x.t \notin {"undefined", "null"}

\* ToBoolean(x), as used by !, &&, ||
Truthy(x) ==
    CASE x.t \in {"undefined", "null", "nan"} -> FALSE
      [] x.t \in {"boolean", "number"} -> x.n # 0
      [] x.t = "string" -> x.s # <<>>
      [] OTHER -> TRUE

\* a !== b : NaN differs from itself, objects are compared by identity
StrictNotEqualAlwaysEqualForNaN(a, b) == a # b

StrictNotEqual(a, b) == a.t = "nan" \/ b.t = "nan" \/ a # b

(***************************************************************************)
(* Strings                                                                 *)
(***************************************************************************)
LowerChars == <<"a", "b", "c", "s">>

UpperChars == <<"A", "B", "C", "S">>

DigitChars == <<"0", "1", "2", "3", "4", "5", "6", "7", "8", "9">>

IndexOf(seq, c) == IF \E i \in DOMAIN seq : seq[i] = c
                   THEN CHOOSE i \in DOMAIN seq : seq[i] = c
                   ELSE 0

\* String.prototype.toUpperCase / toLocaleUpperCase, one character
UpperCharIdentity(c) == c

UpperChar(c) == IF IndexOf(LowerChars, c) > 0 THEN UpperChars[IndexOf(LowerChars, c)] ELSE c

LowerChar(c) == IF IndexOf(UpperChars, c) > 0 THEN LowerChars[IndexOf(UpperChars, c)] ELSE c

toUpperCase(s) == [i \in DOMAIN s |-> UpperChar(s[i])]

toLowerCase(s) == [i \in DOMAIN s |-> LowerChar(s[i])]

RECURSIVE NatToString(_)
NatToString(n) ==
    IF n < 10 THEN <<DigitChars[n + 1]>>
    ELSE NatToString(n \div 10) \o <<DigitChars[(n % 10) + 1]>>

\* String(x), for a value whose conversion cannot throw
JsString(x) ==
    CASE x.t = "undefined" -> <<"u", "n", "d", "e", "f", "i", "n", "e", "d">>
      [] x.t = "null" -> <<"n", "u", "l", "l">>
      [] x.t = "boolean" -> IF x.n = 1 THEN <<"t", "r", "u", "e">>
                            ELSE <<"f", "a", "l", "s", "e">>
      [] x.t = "number" -> IF x.n < 0 THEN <<"-">> \o NatToString(0 - x.n)
                           ELSE NatToString(x.n)
      [] x.t = "nan" -> <<"N", "a", "N">>
      [] x.t = "string" -> x.s
      [] x.t = "object" -> <<"[", "o", "b", "j", "e", "c", "t", " ",
                             "O", "b", "j", "e", "c", "t", "]">>
      [] OTHER -> <<>>

\* the digits at the front of s, as a number; -1 when s does not start with a digit
RECURSIVE DigitPrefix(_, _, _)
DigitPrefix(s, i, acc) ==
    IF i > Len(s) \/ IndexOf(DigitChars, s[i]) = 0
    THEN (IF i = 1 THEN -1 ELSE acc)
    ELSE DigitPrefix(s, i + 1, acc * 10 + (IndexOf(DigitChars, s[i]) - 1))

\* parseFloat(x): the model's strings hold no blanks, dots or exponents
ParseFloat(x) ==
    LET s == JsString(x)
        neg == Len(s) > 0 /\ s[1] = "-"
        body == IF neg THEN Tail(s) ELSE s
        d == DigitPrefix(body, 1, 0)
    IN  IF d < 0 THEN NaN ELSE Num(IF neg THEN 0 - d ELSE d)

(***************************************************************************)
(* The formatting helpers behind Binding.filters.  A helper that can throw *)
(* or log returns a record: v the value, err the exception ("" when none), *)
(* nlog the number of exceptions handed to logUnhandledException.          *)
(***************************************************************************)
Ret(v, err, nlog) == [v |-> v, err |-> err, nlog |-> nlog]

\* _formatNotUndefined(v, String, "")
FormatNotUndefinedString(d) == IF NotNullish(d) THEN Str(JsString(d)) ELSE Str(<<>>)

\* _stringFormatter with the null case guarded (what `typeof d` was meant to test)
StringFormatterNullSafe(d) ==
    IF d.t = "object" THEN Ret(Str(<<"?", "?", "?">>), "", 1)
    ELSE Ret(FormatNotUndefinedString(d), "", 0)

\* _stringFormatter: typeof null is "object", so d.toString is read from null
StringFormatter(d) ==
    IF IsObjectType(d)
    THEN CASE d.t = "null" -> Ret(Undefined, "TypeError", 0)
           [] d.t = "object" -> Ret(Str(<<"?", "?", "?">>), "", 1)
           [] OTHER -> Ret(FormatNotUndefinedString(d), "", 0)
    ELSE Ret(FormatNotUndefinedString(d), "", 0)

\* _ucFormatter: result && result.toLocaleUpperCase()
UcFormatter(d) ==
    LET r == StringFormatter(d)
    IN  IF r.err # "" THEN r ELSE Ret(Str(toUpperCase(r.v.s)), "", r.nlog)

\* _lcFormatter
LcFormatter(d) ==
    LET r == StringFormatter(d)
    IN  IF r.err # "" THEN r ELSE Ret(Str(toLowerCase(r.v.s)), "", r.nlog)

\* _floatFormatter: _formatNotUndefined(d, parseFloat), undefined and null pass
FloatFormatter(d) == IF NotNullish(d) THEN ParseFloat(d) ELSE d

\* _intFormatter: Math.round of the parsed number, NaN and -0 become 0
IntFormatter(d) ==
    LET f == IF NotNullish(d) THEN ParseFloat(d) ELSE Num(0)
    IN  IF f.t = "nan" THEN Num(0) ELSE f

\* _blankFormatter returning one shared wrapper per wrapped value
BlankFormatterShared(d, w) == BlankObj(IF NotNullish(d) THEN ValueOf(d) ELSE d, 0)

\* _blankFormatter: a new object on every call (w is its identity)
BlankFormatter(d, w) == BlankObj(IF NotNullish(d) THEN ValueOf(d) ELSE d, w)

\* the keys of Binding.filters
FilterKeys == {"!", "not?", "?", "!!", "or", "then", "tt", "s", "str", "string",
               "uc", "lc", "blank", "_", "n", "num", "number", "i", "int",
               "integer", "dec", "uniq", "pluck"}

\* the keys whose filter function the model evaluates
ModelledFilters == {"!", "not?", "?", "!!", "s", "str", "string", "uc", "lc",
                    "blank", "_", "n", "num", "number", "i", "int", "integer"}

\* Binding.filters[fmt](v): w is the identity a new object would get.
\* The result says whether that identity was used.
ApplyFilter(fmt, v, w) ==
    LET plain(x) == [v |-> x, err |-> "", nlog |-> 0, alloc |-> FALSE]
        from(r) == [v |-> r.v, err |-> r.err, nlog |-> r.nlog, alloc |-> FALSE]
    IN  CASE fmt \in {"!", "not?"} -> plain(Bool(~Truthy(v)))
          [] fmt \in {"?", "!!"} -> plain(Bool(Truthy(v)))
          [] fmt \in {"s", "str", "string"} -> from(StringFormatter(v))
          [] fmt = "uc" -> from(UcFormatter(v))
          [] fmt = "lc" -> from(LcFormatter(v))
          [] fmt \in {"blank", "_"} ->
                [v |-> BlankFormatter(v, w), err |-> "", nlog |-> 0, alloc |-> TRUE]
          [] fmt \in {"n", "num", "number"} -> plain(FloatFormatter(v))
          [] fmt \in {"i", "int", "integer"} -> plain(IntFormatter(v))

(***************************************************************************)
(* State                                                                   *)
(***************************************************************************)
VARIABLES
    bindings,   \* the Binding instances: id -> fields set by the constructors
    prop,       \* the bound parent component: property name -> value
    bound,      \* the Bound instance of every binding on the bound parent
    dirty,      \* history: the Bounds whose observed property changed since
                \* updateComponents last ran on them
    heap,       \* number of objects allocated so far (next identity - 1)
    lastOp,     \* what the last operation did (calls made, result, exception)
    services,   \* ServiceContainer.instance.services: uppercased name -> slot
    slotTarget, \* ManagedReference.target of every slot (0: undefined)
    svc,        \* the ManagedService instances constructed: name, state
    decorated,  \* the properties decorated with @service: the name, the slot
                \* each reads, and whether the decorator made the slot
    lastReg,    \* history: uppercased name -> the instance registered last
    modal,      \* UIModalController.modal (0: undefined)
    ctl,        \* the controller's presets and surroundings
    obs,        \* the onModalChange observer: _renderCallback and the proxies
    rctx,       \* the render context: the render callback chains handed out
    output      \* the output object the modal passes to its render callback

boundVars == <<bindings, prop, bound, dirty, heap>>

serviceVars == <<services, slotTarget, svc, decorated, lastReg>>

modalVars == <<modal, ctl, obs, rctx, output>>

vars == <<bindings, prop, bound, dirty, heap, lastOp, services, slotTarget,
          svc, decorated, lastReg, modal, ctl, obs, rctx, output>>

(***************************************************************************)
(* Bounds of the model                                                     *)
(***************************************************************************)
\* components bound at the same time, over all Bounds
MaxAttached == 2

\* objects the filters may allocate in one behaviour
MaxHeap == 3

\* the components: 1 has a working update hook, 2 a throwing one, 3 none
Consumers == {1, 2, 3}

BindingIds == {1, 2, 3}

\* an optional reference that is undefined (Bound.parent, Binding.parent, ...)
None == 0

\* Binding.propertyName of a binding made without a source
NoProperty == "undefined"

PropertyNames == {"p", "q"}

\* the values the bound parent's properties take
PropValues == {Undefined, Null, Num(0), NaN, Str(<<"a", "b">>), Str(<<"7">>), Obj(1)}

(***************************************************************************)
(* Binding: the fields the constructors set.                               *)
(*   kind          "plain" (Binding) or "format" (StringFormatBinding)     *)
(*   propertyName  top-level property, NoProperty when there is none       *)
(*   path          the nested property names after the first, <<>> if none *)
(*   chain         the filters composed into _filter, in the order added;  *)
(*                 an entry is [f |-> key of Binding.filters, child |-> 0] *)
(*                 or [f |-> "and" / "or", child |-> the child binding]    *)
(*   defaultValue  the constructor's defaultValue                          *)
(*   parent        Binding.parent, None when undefined                     *)
(*   subs          Binding._bindings                                       *)
(*   source        the constructor's source argument, kept for reference,  *)
(*                 with the filters added later written after it           *)
(*   text          format bindings: the template as literal, ${} and #{}   *)
(*                 parts: [lit |-> characters], [idx |-> index into subs]  *)
(*                 or [idx |-> index into subs, opts |-> the options]      *)
(***************************************************************************)
F(key) == [f |-> key, child |-> None]

Combine(op, child) == [f |-> op, child |-> child]

Lit(s) == [lit |-> s, idx |-> 0, opts |-> <<>>]

Tag(i) == [lit |-> <<>>, idx |-> i, opts |-> <<>>]

Plural(i, opts) == [lit |-> <<>>, idx |-> i, opts |-> opts]

NoBinding ==
    [kind |-> "none", propertyName |-> NoProperty, path |-> <<>>, chain |-> <<>>,
     defaultValue |-> Undefined, parent |-> None, subs |-> <<>>, text |-> <<>>,
     source |-> <<>>]

\* new Binding(source, defaultValue), source already split into name and filters
NewBinding(propertyName, chain, defaultValue, parent, subs) ==
    [kind |-> "plain", propertyName |-> propertyName, path |-> <<>>,
     chain |-> chain, defaultValue |-> defaultValue, parent |-> parent,
     subs |-> subs, text |-> <<>>, source |-> <<>>]

\* new StringFormatBinding(text): super(undefined), _bindings, the amended Reader
NewStringFormatBinding(text, subs) ==
    [kind |-> "format", propertyName |-> NoProperty, path |-> <<>>,
     chain |-> <<>>, defaultValue |-> Undefined, parent |-> None, subs |-> subs,
     text |-> text, source |-> <<>>]

\* filter chains of the bindings the model binds
Chains == {<<>>, <<F("!")>>, <<F("s")>>, <<F("n")>>, <<F("_")>>,
           <<F("s"), F("uc")>>, <<F("i"), F("str")>>, <<F("blank"), F("lc")>>}

\* the chains bound with the default value "d" as well
DefaultChains == {<<>>, <<F("n")>>}

\* bind("p|..." , d) alone
PlainTables ==
    {[b \in BindingIds |->
        IF b = 1 THEN NewBinding("p", ch, d, None, <<>>) ELSE NoBinding]
     : ch \in Chains, d \in {Undefined}}
    \cup
    {[b \in BindingIds |->
        IF b = 1 THEN NewBinding("p", ch, d, None, <<>>) ELSE NoBinding]
     : ch \in DefaultChains, d \in {Str(<<"d">>)}}

\* bindf("x${p|...}-${q}"): two inline bindings with default "", parent = this
FormatTables ==
    {[b \in BindingIds |->
        CASE b = 1 -> NewStringFormatBinding(
                          <<Lit(<<"x">>), Tag(1), Lit(<<"-">>), Tag(2)>>, <<2, 3>>)
          [] b = 2 -> NewBinding("p", ch, Str(<<>>), 1, <<>>)
          [] b = 3 -> NewBinding("q", <<>>, Str(<<>>), 1, <<>>)]
     : ch \in {<<>>}}

\* binding.parent = this, for the binding that and / or construct
Term(binding, this) == [binding EXCEPT !.parent = this]

\* this.and(source) and this.or(source), the new binding being `binding`:
\* this._bindings.push(binding), and the filter composed after the old one
WithTerm(op, this, binding) ==
    [this EXCEPT !.subs = Append(@, binding),
                 !.chain = Append(@, Combine(op, binding))]

\* bind("p").and("q|...") and bind("p").or("q|...")
CombinedTables ==
    {[b \in BindingIds |->
        CASE b = 1 -> WithTerm(op, NewBinding("p", <<>>, Undefined, None, <<>>), 2)
          [] b = 2 -> Term(NewBinding("q", ch, Undefined, None, <<>>), 1)
          [] b = 3 -> NoBinding]
     : op \in {"and", "or"}, ch \in {<<>>}}

NestedTables == FormatTables \cup CombinedTables

\* bindf("${p}-${p}") and bind("p").and("p").or("p|!"): two nested bindings
\* that observe the same property
SharedPropertyTables ==
    {[b \in BindingIds |->
        CASE b = 1 -> NewStringFormatBinding(
                          <<Tag(1), Lit(<<"-">>), Tag(2)>>, <<2, 3>>)
          [] b = 2 -> NewBinding("p", <<>>, Str(<<>>), 1, <<>>)
          [] b = 3 -> NewBinding("p", <<>>, Str(<<>>), 1, <<>>)],
     [b \in BindingIds |->
        CASE b = 1 -> WithTerm("or",
                         WithTerm("and", NewBinding("p", <<>>, Undefined, None, <<>>), 2),
                         3)
          [] b = 2 -> Term(NewBinding("p", <<>>, Undefined, None, <<>>), 1)
          [] b = 3 -> Term(NewBinding("p", <<F("!")>>, Undefined, None, <<>>), 1)]}

(***************************************************************************)
(* The Binding constructor: the source string, a sequence of characters,   *)
(* is split into property name, path and filters.                          *)
(***************************************************************************)
\* the constructor called without a source (source === undefined)
NoSource == <<"undefined">>

\* String.prototype.indexOf(c), base 1; 0 when c does not occur
FirstIndexOf(s, c) ==
    IF \E i \in DOMAIN s : s[i] = c
    THEN CHOOSE i \in DOMAIN s : s[i] = c /\ \A j \in 1..(i - 1) : s[j] # c
    ELSE 0

\* the characters as one name (a property name, a filter key)
RECURSIVE Join(_)
Join(s) == IF s = <<>> THEN "" ELSE s[1] \o Join(Tail(s))

\* String.prototype.split(sep)
RECURSIVE Split(_, _)
Split(s, sep) ==
    IF FirstIndexOf(s, sep) = 0 THEN <<s>>
    ELSE <<SubSeq(s, 1, FirstIndexOf(s, sep) - 1)>>
         \o Split(SubSeq(s, FirstIndexOf(s, sep) + 1, Len(s)), sep)

RECURSIVE TrimStart(_)
TrimStart(s) == IF s # <<>> /\ s[1] = " " THEN TrimStart(Tail(s)) ELSE s

RECURSIVE TrimEnd(_)
TrimEnd(s) ==
    IF s # <<>> /\ s[Len(s)] = " " THEN TrimEnd(SubSeq(s, 1, Len(s) - 1)) ELSE s

\* String.prototype.trim()
Trim(s) == TrimEnd(TrimStart(s))

\* addFilter: fmt.indexOf("(") > 0 && fmt.slice(-1) === ")"
HasArgument(fmt) ==
    FirstIndexOf(fmt, "(") > 1 /\ fmt[Len(fmt)] = ")"

\* addFilter: the filter ID, after trim() and without the argument
FilterId(fmt) ==
    IF HasArgument(Trim(fmt))
    THEN Trim(SubSeq(Trim(fmt), 1, FirstIndexOf(Trim(fmt), "(") - 1))
    ELSE Trim(fmt)

\* addFilter: the argument between the parentheses, <<>> when there is none
FilterArg(fmt) ==
    IF HasArgument(Trim(fmt))
    THEN Trim(SubSeq(Trim(fmt), FirstIndexOf(Trim(fmt), "(") + 1, Len(Trim(fmt)) - 1))
    ELSE <<>>

\* members every object literal inherits from Object.prototype
ObjectPrototypeMembers ==
    {"constructor", "toString", "toLocaleString", "valueOf", "hasOwnProperty",
     "isPrototypeOf", "propertyIsEnumerable", "__proto__"}

HasFilterOwnKeysOnly(id) == id \in FilterKeys

\* Binding.filters[id] is truthy: an own key, or a member found on the
\* prototype of the object literal
HasFilter(id) == id \in FilterKeys \/ id \in ObjectPrototypeMembers

\* the result of a constructor or of addFilter: the binding, the exception
Made(b, err) == [b |-> b, err |-> err]

\* binding.addFilter(fmt) on binding record b
addFilter(b, fmt) ==
    IF HasFilter(Join(FilterId(fmt)))
    THEN Made([b EXCEPT !.chain = Append(@, F(Join(FilterId(fmt))))], "")
    ELSE Made(b, "Binding_UnknownFilter")

\* for (let part of parts) this.addFilter(part), from part i on
RECURSIVE AddFilters(_, _, _)
AddFilters(r, parts, i) ==
    IF i > Len(parts) \/ r.err # "" THEN r
    ELSE AddFilters(addFilter(r.b, parts[i]), parts, i + 1)

\* the leading ! characters dropped, and no filter added for them
StripNegationsOnly(b, name) ==
    [b EXCEPT !.propertyName = Join(SelectSeq(name, LAMBDA c : c # "!"))]

\* while (propertyName[0] === "!") { slice(1); this.addFilter("!") }
RECURSIVE StripNegations(_, _)
StripNegations(b, name) ==
    IF name # <<>> /\ name[1] = "!"
    THEN StripNegations(addFilter(b, <<"!">>).b, Tail(name))
    ELSE [b EXCEPT !.propertyName = Join(name)]

\* the names of the path segments
JoinAll(segments) == [i \in DOMAIN segments |-> Join(segments[i])]

\* the constructor up to the filters: parts.shift().split("."), path.shift()
ParseName(b, first) ==
    [StripNegations(b, Split(first, ".")[1])
        EXCEPT !.path = JoinAll(Tail(Split(first, ".")))]

\* new Binding(source, defaultValue)
Binding(source, defaultValue) ==
    IF source = NoSource
    THEN Made(NewBinding(NoProperty, <<>>, defaultValue, None, <<>>), "")
    ELSE AddFilters(
            Made(ParseName([NewBinding(NoProperty, <<>>, defaultValue, None, <<>>)
                               EXCEPT !.source = source],
                           Split(source, "|")[1]), ""),
            Split(source, "|"), 2)

(***************************************************************************)
(* The StringFormatBinding constructor: the tags of the format text, a     *)
(* sequence of characters, and the bindings made or taken for them.        *)
(* The bindings are entries of a table; a binding is known by its index.   *)
(***************************************************************************)
\* a `rest` argument that is no Binding instance
NotABindingArg == 0

\* the first index from i on at which s holds "}", 0 when there is none
RECURSIVE ClosingBrace(_, _)
ClosingBrace(s, i) ==
    IF i > Len(s) THEN 0 ELSE IF s[i] = "}" THEN i ELSE ClosingBrace(s, i + 1)

\* [^\}]+\} from i on: the index of the closing brace, 0 when there is no match
BodyEnd(s, i) == IF i <= Len(s) /\ s[i] # "}" THEN ClosingBrace(s, i + 1) ELSE 0

\* /\$\{([^\}]+)\}/ at i: the index of the last character, 0 when no match
BindingTagEnd(s, i) ==
    IF i < Len(s) /\ s[i] = "$" /\ s[i + 1] = "{" THEN BodyEnd(s, i + 2) ELSE 0

\* String(text).match(/\$\{([^\}]+)\}/g): the matches from i on, in order
RECURSIVE MatchTags(_, _)
MatchTags(s, i) ==
    IF i > Len(s) THEN <<>>
    ELSE IF BindingTagEnd(s, i) = 0 THEN MatchTags(s, i + 1)
    ELSE <<SubSeq(s, i, BindingTagEnd(s, i))>> \o MatchTags(s, BindingTagEnd(s, i) + 1)

\* s.slice(2, -1).trim()
Inner(s) == Trim(SubSeq(s, 3, Len(s) - 1))

\* /\%\d+/.test(inner)
HasPercentDigit(inner) ==
    \E k \in 1..(Len(inner) - 1) :
        inner[k] = "%" /\ IndexOf(DigitChars, inner[k + 1]) > 0

\* inner[0] === "%" && /\%\d+/.test(inner)
IsPositional(inner) == inner # <<>> /\ inner[1] = "%" /\ HasPercentDigit(inner)

\* parseInt(inner.slice(1)): -1 stands for NaN
ParseInt(s) == DigitPrefix(s, 1, 0)

\* indexBySource[s] = n
Put(indexBySource, s, n) ==
    [t \in DOMAIN indexBySource \cup {s} |-> IF t = s THEN n ELSE indexBySource[t]]

\* binding instanceof Binding, for the `rest` argument at position n
IsBindingArg(rest, n) == n \in DOMAIN rest /\ rest[n] # NotABindingArg

\* the constructor's locals: table the bindings that exist, this the index of
\* the new format binding, bindings and indexBySource as in the code
Locals(table) ==
    [table |-> Append(table, NewStringFormatBinding(<<>>, <<>>)),
     this |-> Len(table) + 1, bindings |-> <<>>, indexBySource |-> <<>>, err |-> ""]

\* indexBySource[s] = bindings.length; bindings.push(binding);
\* if (binding.bindings) bindings.push(...binding.bindings)
Pushed(c, s, b) ==
    [c EXCEPT !.indexBySource = Put(c.indexBySource, s, Len(c.bindings)),
              !.bindings = c.bindings \o <<b>> \o c.table[b].subs]

\* if (!binding.parent) binding.parent = this
Adopted(c, b) ==
    [c EXCEPT !.table[b].parent = IF @ = None THEN c.this ELSE @]

\* binding = rest[i - 1], taken if there is one, with no exception
PositionalTagUnchecked(c, s, rest, n) ==
    IF n \in DOMAIN rest /\ rest[n] \in DOMAIN c.table
    THEN Pushed(Adopted(c, rest[n]), s, rest[n])
    ELSE c

\* binding = rest[i - 1]; if (!(binding instanceof Binding)) throw ...
PositionalTag(c, s, rest, n) ==
    IF IsBindingArg(rest, n) THEN Pushed(Adopted(c, rest[n]), s, rest[n])
    ELSE [c EXCEPT !.err = "Binding_NotABinding"]

\* binding = new Binding(inner, ""), given as r; binding.parent = this
InlineTag(c, s, r) ==
    IF r.err # "" THEN [c EXCEPT !.err = r.err]
    ELSE Pushed([c EXCEPT !.table = Append(@, [r.b EXCEPT !.parent = c.this])],
                s, Len(c.table) + 1)

\* the body of the loop over the matches
TagStep(c, s, rest) ==
    IF IsPositional(Inner(s))
    THEN PositionalTag(c, s, rest, ParseInt(Tail(Inner(s))))
    ELSE InlineTag(c, s, Binding(Inner(s), Str(<<>>)))

\* for (let s of match) ..., from match i on
RECURSIVE TagLoop(_, _, _, _)
TagLoop(c, matches, rest, i) ==
    IF i > Len(matches) \/ c.err # "" THEN c
    ELSE TagLoop(TagStep(c, matches[i], rest), matches, rest, i + 1)

(***************************************************************************)
(* The parts this.text.replace(...) of the format reader finds in the      *)
(* text; they depend on the text and on indexBySource only.  lastIndex is  *)
(* the code's index (from 0), NoIndex when it is undefined.                *)
(***************************************************************************)
NoIndex == -1

\* /[\$\#]\{(?:(\d+)\:)?([^\}]+)\}/ at i: the index of the last character,
\* 0 when there is no match
TagEnd(s, i) ==
    IF i < Len(s) /\ s[i] \in {"$", "#"} /\ s[i + 1] = "{" THEN BodyEnd(s, i + 2)
    ELSE 0

\* the number of digits at the front of s
RECURSIVE DigitCount(_, _)
DigitCount(s, i) ==
    IF i > Len(s) \/ IndexOf(DigitChars, s[i]) = 0 THEN i - 1
    ELSE DigitCount(s, i + 1)

\* (?:(\d+)\:)? takes part in the match of the characters between the braces
HasIndex(inside) ==
    /\ DigitCount(inside, 1) > 0
    /\ DigitCount(inside, 1) + 1 < Len(inside)
    /\ inside[DigitCount(inside, 1) + 1] = ":"

\* the group s of the match
TagBody(inside) ==
    IF HasIndex(inside)
    THEN SubSeq(inside, DigitCount(inside, 1) + 2, Len(inside))
    ELSE inside

\* indexBySource[tag]
IndexBySource(indexBySource, tag) ==
    IF tag \in DOMAIN indexBySource THEN indexBySource[tag] ELSE NoIndex

\* bindingIndex = idx ? Number(idx) - 1 : lastIndex
PluralIndex(inside, lastIndex) ==
    IF HasIndex(inside) THEN DigitPrefix(inside, 1, 0) - 1 ELSE lastIndex

\* a ${} tag: lastIndex >= 0 ? _stringFormatter(values[lastIndex]) : ""
ValuePart(lastIndex) == IF lastIndex >= 0 THEN Tag(lastIndex + 1) ELSE Lit(<<>>)

\* a #{} tag: tt.getPlural(values[bindingIndex], s.split("/"))
PluralPart(inside, lastIndex) ==
    Plural(PluralIndex(inside, lastIndex) + 1, Split(TagBody(inside), "/"))

RECURSIVE Parts(_, _, _, _)
Parts(s, i, lastIndex, indexBySource) ==
    IF i > Len(s) THEN <<>>
    ELSE IF TagEnd(s, i) = 0
    THEN <<Lit(<<s[i]>>)>> \o Parts(s, i + 1, lastIndex, indexBySource)
    ELSE IF s[i] = "$"
    THEN <<ValuePart(IndexBySource(indexBySource, SubSeq(s, i, TagEnd(s, i))))>>
         \o Parts(s, TagEnd(s, i) + 1,
                  IndexBySource(indexBySource, SubSeq(s, i, TagEnd(s, i))),
                  indexBySource)
    ELSE <<PluralPart(SubSeq(s, i + 2, TagEnd(s, i) - 1), lastIndex)>>
         \o Parts(s, TagEnd(s, i) + 1, lastIndex, indexBySource)

\* the constructor's result once the loop has given c: the table with the new
\* format binding in it, or the exception
Compose(c, text) ==
    IF c.err # "" THEN [table |-> [c.table EXCEPT ![c.this] = NoBinding], err |-> c.err,
                        this |-> c.this]
    ELSE [table |-> [c.table EXCEPT ![c.this] =
                        [NewStringFormatBinding(Parts(text, 1, 0, c.indexBySource),
                                                c.bindings)
                            EXCEPT !.source = text]],
          err |-> "", this |-> c.this]

\* new StringFormatBinding(text, ...rest), with the bindings of table existing
StringFormatBinding(table, text, rest) ==
    Compose(TagLoop(Locals(table), MatchTags(text, 1), rest, 1), text)

(***************************************************************************)
(* Readers.  An evaluation carries                                         *)
(*   v      the value so far                                               *)
(*   err    the exception thrown ("" when none)                            *)
(*   nlog   exceptions handed to logUnhandledException by the formatters   *)
(*   heap   objects allocated so far                                       *)
(*   reads  the `bound.value` reads made: which Bound, cached or not, and  *)
(*          the value read                                                 *)
(***************************************************************************)
Eval(v, h) == [v |-> v, err |-> "", nlog |-> 0, heap |-> h, reads |-> <<>>]

\* Component.getBoundBinding(binding) on the bound parent: the Bound, if any
getBoundBinding(bs, b) == IF bs[b].exists THEN b ELSE None

\* result === undefined && defaultValue !== undefined ? defaultValue : result
SubstituteDefaultWhenFalsy(result, defaultValue) ==
    IF ~Truthy(result) /\ defaultValue.t # "undefined" THEN defaultValue ELSE result

SubstituteDefault(result, defaultValue) ==
    IF result.t = "undefined" /\ defaultValue.t # "undefined" THEN defaultValue
    ELSE result

\* Bound.value read without looking at the cache
CachedOrReadNeverCached(updated) == FALSE

\* Bound.value: this._updatedValue ? this._lastValue : this._reader.getValue()
CachedOrRead(updated) == updated

RECURSIVE GetValue(_, _, _, _, _)
RECURSIVE BoundValue(_, _, _)
RECURSIVE RunFilters(_, _, _, _)
RECURSIVE SubValues(_, _, _, _)

\* get value() of Bound b, with the Bounds as in bs
BoundValue(bs, b, h) ==
    IF CachedOrRead(bs[b].updated) THEN Eval(bs[b].last, h)
    ELSE GetValue(bs, b, FALSE, Undefined, h)

\* the evaluation st after `bound.value` of Bound child gave c
AfterRead(bs, child, st, c) ==
    [v |-> c.v, err |-> c.err, nlog |-> st.nlog + c.nlog, heap |-> c.heap,
     reads |-> st.reads \o c.reads \o
               (IF c.err = ""
                THEN <<[b |-> child, cached |-> bs[child].updated, v |-> c.v]>>
                ELSE <<>>)]

\* the evaluation st after a filter function gave a
AfterFilter(st, a) ==
    [st EXCEPT !.v = a.v, !.err = a.err, !.nlog = st.nlog + a.nlog,
               !.heap = IF a.alloc THEN st.heap + 1 ELSE st.heap]

\* the and / or filter returning bound.value whatever v is
FilterStepChildOnly(bs, e, st) ==
    IF e.child # None
    THEN IF getBoundBinding(bs, e.child) = None
         THEN [st EXCEPT !.err = "Binding_NotFound"]
         ELSE AfterRead(bs, e.child, st, BoundValue(bs, e.child, st.heap))
    ELSE AfterFilter(st, ApplyFilter(e.f, st.v, st.heap + 1))

\* one step of _filter: the filter function chain[i] applied to st.v
FilterStep(bs, e, st) ==
    IF e.child # None
    THEN \* and / or: look up the child's Bound, then v && / || bound.value
         IF getBoundBinding(bs, e.child) = None
         THEN [st EXCEPT !.err = "Binding_NotFound"]
         ELSE IF (e.f = "and") = Truthy(st.v)
              THEN AfterRead(bs, e.child, st, BoundValue(bs, e.child, st.heap))
              ELSE st
    ELSE AfterFilter(st, ApplyFilter(e.f, st.v, st.heap + 1))

\* the filters composed in the opposite order
RECURSIVE RunFiltersBackwards(_, _, _, _)
RunFiltersBackwards(bs, chain, i, st) ==
    IF i > Len(chain) \/ st.err # "" THEN st
    ELSE RunFiltersBackwards(bs, chain, i + 1,
                             FilterStep(bs, chain[Len(chain) + 1 - i], st))

\* _filter(v, boundParent): the composed filters chain[i], chain[i+1], ...
RunFilters(bs, chain, i, st) ==
    IF i > Len(chain) \/ st.err # "" THEN st
    ELSE RunFilters(bs, chain, i + 1, FilterStep(bs, chain[i], st))

\* return result === undefined && defaultValue !== undefined ? defaultValue : result
WithDefault(r, defaultValue) ==
    IF r.err # "" THEN r ELSE [r EXCEPT !.v = SubstituteDefault(r.v, defaultValue)]

\* Binding.Reader.getValue from the filters on: _filter, then the default
FinishValue(bs, b, st) ==
    WithDefault(RunFilters(bs, bindings[b].chain, 1, st), bindings[b].defaultValue)

\* the values so far, after `bound.value` of Bound child gave c
AfterSubRead(bs, child, acc, c) ==
    [vals |-> Append(acc.vals, c.v), err |-> c.err, nlog |-> acc.nlog + c.nlog,
     heap |-> c.heap,
     reads |-> acc.reads \o c.reads \o
               (IF c.err = ""
                THEN <<[b |-> child, cached |-> bs[child].updated, v |-> c.v]>>
                ELSE <<>>)]

\* bound.value of the child taken without looking for its Bound first
SubValueStepUnchecked(bs, child, acc) ==
    AfterSubRead(bs, child, acc, BoundValue(bs, child, acc.heap))

SubValueStep(bs, child, acc) ==
    IF getBoundBinding(bs, child) = None
    THEN [acc EXCEPT !.err = "Binding_NotFound"]
    ELSE AfterSubRead(bs, child, acc, BoundValue(bs, child, acc.heap))

\* bindings.map(binding => bound.value) of a format binding's reader
SubValues(bs, subs, i, acc) ==
    IF i > Len(subs) \/ acc.err # "" THEN acc
    ELSE SubValues(bs, subs, i + 1, SubValueStep(bs, subs[i], acc))

\* the text so far, with the formatted value f of a ${} tag appended
AfterTag(acc, f) ==
    IF f.err # "" THEN [acc EXCEPT !.err = f.err]
    ELSE Ret(Str(acc.v.s \o f.v.s), "", acc.nlog + f.nlog)

\* values[i] of the code, for i + 1
ValueAt(vals, i) == IF i \in DOMAIN vals THEN vals[i] ELSE Undefined

\* the option for the number n out of k options given in the order 1/other,
\* 0/1/other, 0/1/2/other, ...; a value that is no number takes the last
PluralChoice(v, k) ==
    IF v.t # "number" THEN k
    ELSE IF k <= 2 THEN (IF v.n \in {1, -1} THEN 1 ELSE k)
    ELSE IF v.n \in (2 - k)..(k - 2) THEN (IF v.n < 0 THEN 1 - v.n ELSE v.n + 1)
    ELSE k

\* tt.getPlural(value, options); the options of the model hold no #_
getPlural(v, options) == Ret(Str(options[PluralChoice(v, Len(options))]), "", 0)

\* this.text.replace(...): every ${} part becomes _stringFormatter(values[idx]),
\* every #{} part tt.getPlural(values[idx], options)
RECURSIVE CompileText(_, _, _, _)
CompileText(text, vals, i, acc) ==
    IF i > Len(text) \/ acc.err # "" THEN acc
    ELSE CompileText(text, vals, i + 1,
            IF text[i].opts # <<>>
            THEN AfterTag(acc, getPlural(ValueAt(vals, text[i].idx), text[i].opts))
            ELSE IF text[i].idx = 0 THEN [acc EXCEPT !.v = Str(acc.v.s \o text[i].lit)]
            ELSE AfterTag(acc, StringFormatter(vals[text[i].idx])))

\* the evaluation after the sub-bindings' values sv were compiled into tx
Compiled(sv, tx) ==
    [v |-> tx.v, err |-> tx.err, nlog |-> sv.nlog + tx.nlog, heap |-> sv.heap,
     reads |-> sv.reads]

\* the format reader once the values sv of the sub-bindings are taken
FormatValue(bs, b, sv) ==
    IF sv.err # ""
    THEN [v |-> Undefined, err |-> sv.err, nlog |-> sv.nlog, heap |-> sv.heap,
          reads |-> sv.reads]
    ELSE FinishValue(bs, b,
            Compiled(sv, CompileText(bindings[b].text, sv.vals, 1, Ret(Str(<<>>), "", 0))))

\* the objects a property may hold, by identity: 1 is {}, 2 is {q: "ab"},
\* 3 is map-like (no property q, get("q") gives "7"), 4 is {q: object 3},
\* 5 is {q: null}
ObjectProperties(r) ==
    CASE r = 2 -> [q |-> Str(<<"a", "b">>)]
      [] r = 4 -> [q |-> Obj(3)]
      [] r = 5 -> [q |-> Null]
      [] OTHER -> <<>>

\* typeof result.get === "function"
HasGetMethod(r) == r = 3

\* result.get(p) of the map-like object
GetMethod(r, p) == IF p = "q" THEN Str(<<"7">>) ELSE Undefined

\* string, number and boolean values: `p in result` throws a TypeError
IsPrimitive(v) == v.t \in {"boolean", "number", "nan", "string"}

\* boundParent[propertyName]
ParentProperty(name) == IF name \in DOMAIN prop THEN prop[name] ELSE Undefined

\* !(p in result) && typeof result.get === "function" ? result.get(p) : result[p]
Lookup(v, p) ==
    IF v.t # "object" THEN Undefined
    ELSE IF p \in DOMAIN ObjectProperties(v.r) THEN ObjectProperties(v.r)[p]
    ELSE IF HasGetMethod(v.r) THEN GetMethod(v.r, p)
    ELSE Undefined

InOperatorNeverThrows(v) == FALSE

\* `p in result` throws
InOperatorThrows(v) == IsPrimitive(v)

\* one turn of the loop over path
PathStep(st, p) ==
    IF InOperatorThrows(st.v) THEN [st EXCEPT !.err = "TypeError"]
    ELSE [st EXCEPT !.v = Lookup(st.v, p)]

\* for (i = 0; i < path.length && result != undefined; i++) ...
RECURSIVE WalkPath(_, _, _)
WalkPath(path, i, st) ==
    IF i > Len(path) \/ st.err # "" \/ ~NotNullish(st.v) THEN st
    ELSE WalkPath(path, i + 1, PathStep(st, path[i]))

\* Reader.getValue(propertyHint) of binding b; hasHint: an argument was passed
GetValue(bs, b, hasHint, hint, h) ==
    IF bindings[b].kind = "format"
    THEN FormatValue(bs, b,
            SubValues(bs, bindings[b].subs, 1,
               [vals |-> <<>>, err |-> "", nlog |-> 0, heap |-> h, reads |-> <<>>]))
    ELSE FinishValue(bs, b,
            WalkPath(bindings[b].path, 1,
               Eval(IF hasHint THEN hint
                    ELSE IF bindings[b].propertyName # NoProperty
                         THEN ParentProperty(bindings[b].propertyName)
                         ELSE Undefined, h)))

(***************************************************************************)
(* Binding.Bound                                                           *)
(*   exists   the Bound was constructed for the bound parent               *)
(*   list     the ManagedList of bound components, in order                *)
(*   updated  _updatedValue                                                *)
(*   last     _lastValue                                                   *)
(*   parent   the parent Bound (the Bound of binding.parent), or None      *)
(***************************************************************************)
NoBound == [exists |-> FALSE, list |-> <<>>, updated |-> FALSE, last |-> Undefined,
            parent |-> None]

\* component[id] of the bound components: a function that returns, a function
\* that throws, or not a function
HookOf(c) == CASE c % 3 = 1 -> "ok" [] c % 3 = 2 -> "throws" [] OTHER -> "missing"

\* hasValue()
hasValue(bs, b) == bs[b].updated

\* updateComponents without the early return
IsDetachedNever(B) == FALSE

\* if (!this.count && !this.parent)
IsDetached(B) == Len(B.list) = 0 /\ B.parent = None

\* the update test without the short-circuit
NeedsUpdateAlways(B, value) == TRUE

\* if (!this._updatedValue || this._lastValue !== value)
NeedsUpdate(B, value) == ~B.updated \/ StrictNotEqual(B.last, value)

\* forEach that lets the first exception escape
RECURSIVE NotifyFrom(_, _, _, _)
NotifyFrom(b, list, value, i) ==
    IF i > Len(list) THEN [calls |-> <<>>, logged |-> <<>>, err |-> ""]
    ELSE LET c == list[i]
             rest == NotifyFrom(b, list, value, i + 1)
             call == [b |-> b, c |-> c, v |-> value]
         IN  CASE HookOf(c) = "ok" ->
                    [rest EXCEPT !.calls = <<call>> \o rest.calls]
               [] HookOf(c) = "throws" ->
                    [calls |-> <<call>>, logged |-> <<>>, err |-> "HookError"]
               [] OTHER ->
                    [calls |-> <<>>, logged |-> <<>>, err |-> "Binding_NoComponent"]

NotifyUnguarded(b, list, value) == NotifyFrom(b, list, value, 1)

\* forEach that walks the list from its end
NotifyBackwards(b, list, value) ==
    LET withHook == SelectSeq(list, LAMBDA c : HookOf(c) # "missing")
        n == Len(withHook)
    IN  [calls |-> [i \in DOMAIN withHook |->
                      [b |-> b, c |-> withHook[n + 1 - i], v |-> value]],
         logged |-> <<>>, err |-> ""]

\* this.forEach(component => { try { ... component[id](value) } catch (err)
\* { logUnhandledException(err) } }): calls made and exceptions logged, in order
Notify(b, list, value) ==
    LET withHook == SelectSeq(list, LAMBDA c : HookOf(c) # "missing")
        failing == SelectSeq(list, LAMBDA c : HookOf(c) # "ok")
    IN  [calls |-> [i \in DOMAIN withHook |-> [b |-> b, c |-> withHook[i], v |-> value]],
         logged |-> [i \in DOMAIN failing |->
                        [c |-> failing[i],
                         e |-> IF HookOf(failing[i]) = "throws" THEN "HookError"
                               ELSE "Binding_NoComponent"]],
         err |-> ""]

\* the arguments of this.parent.updateComponents(): none
ParentCallWithValue(value) == <<value>>

ParentCall(value) == <<>>

\* what updateComponents did on one Bound; args: the arguments it was called
\* with by a child Bound (none for the Bound the operation was invoked on)
\* was: _updatedValue when the call began
Visit(b, how, args, was, v, reads, nlog) ==
    [b |-> b, how |-> how, args |-> args, was |-> was, v |-> v, reads |-> reads,
     nlog |-> nlog]

\* updateComponents once the reader has returned g: no change, delegation to
\* the parent (whose result is up), or the hooks
Outcome(bs, b, from, g, up) ==
    IF g.err # ""
    THEN [bs |-> bs, heap |-> g.heap, err |-> g.err,
          visits |-> <<Visit(b, "throw", from, bs[b].updated, Undefined, g.reads, g.nlog)>>,
          calls |-> <<>>, logged |-> <<>>]
    ELSE IF ~NeedsUpdate(bs[b], g.v)
    THEN [bs |-> bs, heap |-> g.heap, err |-> "",
          visits |-> <<Visit(b, "unchanged", from, bs[b].updated, g.v, g.reads, g.nlog)>>,
          calls |-> <<>>, logged |-> <<>>]
    ELSE IF bs[b].parent # None
    THEN [up EXCEPT !.visits =
             <<Visit(b, "delegate", from, bs[b].updated, g.v, g.reads, g.nlog)>> \o @]
    ELSE [bs |-> [bs EXCEPT ![b].updated = TRUE, ![b].last = g.v],
          heap |-> g.heap, err |-> Notify(b, bs[b].list, g.v).err,
          visits |-> <<Visit(b, "notify", from, bs[b].updated, g.v, g.reads, g.nlog)>>,
          calls |-> Notify(b, bs[b].list, g.v).calls,
          logged |-> Notify(b, bs[b].list, g.v).logged]

RECURSIVE updateComponents(_, _, _, _, _)

\* this._updatedValue = true; this._lastValue = value; then, with a parent,
\* this.parent.updateComponents()
StoreAndDelegate(bs, b, g) ==
    IF g.err = "" /\ NeedsUpdate(bs[b], g.v) /\ bs[b].parent # None
    THEN updateComponents([bs EXCEPT ![b].updated = TRUE, ![b].last = g.v],
                          bs[b].parent, ParentCall(g.v), <<b, ParentCall(g.v)>>, g.heap)
    ELSE [bs |-> bs]

Recompute(bs, b, from, g) == Outcome(bs, b, from, g, StoreAndDelegate(bs, b, g))

\* updateComponents(...args) on Bound b and, through this.parent, on its
\* ancestors; from: <<>> or <<the calling child Bound, its arguments>>.
\* Result: the Bounds afterwards, the heap, the exception that escaped, the
\* Bounds visited in order (and what each did), the hooks called, the
\* exceptions logged.
updateComponents(bs, b, args, from, h) ==
    IF IsDetached(bs[b])
    THEN [bs |-> [bs EXCEPT ![b].updated = FALSE], heap |-> h, err |-> "",
          visits |-> <<Visit(b, "invalidate", from, bs[b].updated, Undefined, <<>>, 0)>>,
          calls |-> <<>>, logged |-> <<>>]
    ELSE Recompute(bs, b, from,
            GetValue(bs, b, Len(args) > 0,
                     IF Len(args) > 0 THEN args[1] ELSE Undefined, h))

(***************************************************************************)
(* Operations on the bindings of one bound parent component                *)
(***************************************************************************)
NoOp == [op |-> "init", b |-> None, err |-> "",
         visits |-> <<>>, calls |-> <<>>, logged |-> <<>>, v |-> Undefined,
         reads |-> <<>>]

\* the values a property takes in the model
ValuesOf(name) ==
    IF name = "q" THEN {Undefined, Str(<<"7">>)}
    ELSE IF bindings[1].subs = <<>> THEN PropValues
    ELSE IF bindings[3].propertyName = "p"
    THEN {Undefined, Str(<<"a", "b">>), Str(<<"7">>)}
    ELSE {Undefined, Null, Str(<<"a", "b">>)}

\* the properties some binding observes
ObservedProperties ==
    {bindings[b].propertyName : b \in BindingIds} \ {NoProperty}

Attached == {<<b, c>> \in BindingIds \X Consumers :
                \E i \in DOMAIN bound[b].list : bound[b].list[i] = c}

\* new Binding.Bound(binding, boundParent)
CreateBound(b) ==
    /\ bindings[b].kind # "none"
    /\ ~bound[b].exists
    /\ IF bindings[b].parent # None /\ getBoundBinding(bound, bindings[b].parent) = None
       THEN /\ lastOp' = [NoOp EXCEPT !.op = "new", !.b = b,
                                      !.err = "Binding_ParentNotFound"]
            /\ UNCHANGED bound
       ELSE /\ bound' = [bound EXCEPT ![b] =
                           [NoBound EXCEPT !.exists = TRUE,
                                           !.parent = bindings[b].parent]]
            /\ lastOp' = [NoOp EXCEPT !.op = "new", !.b = b]
    /\ UNCHANGED <<bindings, prop, dirty, heap, serviceVars, modalVars>>

\* Bound.add(component): ManagedList keeps the order and refuses duplicates
AddConsumer(b, c) ==
    /\ bound[b].exists
    /\ <<b, c>> \notin Attached
    /\ Cardinality(Attached) < MaxAttached
    /\ bound[b].parent # None => c = 1
    /\ bound' = [bound EXCEPT ![b].list = Append(@, c)]
    /\ lastOp' = [NoOp EXCEPT !.op = "add"]
    /\ UNCHANGED <<bindings, prop, dirty, heap, serviceVars, modalVars>>

\* Bound.remove(component), also what a destroyed component leads to
RemoveConsumer(b, c) ==
    /\ bound[b].exists
    /\ <<b, c>> \in Attached
    /\ bound' = [bound EXCEPT ![b].list = SelectSeq(@, LAMBDA x : x # c)]
    /\ lastOp' = [NoOp EXCEPT !.op = "remove"]
    /\ UNCHANGED <<bindings, prop, dirty, heap, serviceVars, modalVars>>

\* the bound parent's property is assigned a new value
SetProperty(name, v) ==
    /\ name \in ObservedProperties
    /\ v \in ValuesOf(name)
    /\ v # prop[name]
    /\ prop' = [prop EXCEPT ![name] = v]
    /\ dirty' = dirty \cup {b \in BindingIds :
                               bound[b].exists /\ bindings[b].propertyName = name}
    /\ lastOp' = [NoOp EXCEPT !.op = "set"]
    /\ UNCHANGED <<bindings, bound, heap, serviceVars, modalVars>>

\* the state after updateComponents on Bound b gave r
Updated(b, r) ==
    /\ r.heap <= MaxHeap
    /\ bound' = r.bs
    /\ heap' = r.heap
    /\ dirty' = dirty \ {r.visits[i].b : i \in DOMAIN r.visits}
    /\ lastOp' = [NoOp EXCEPT !.op = "update", !.b = b, !.err = r.err,
                              !.visits = r.visits, !.calls = r.calls,
                              !.logged = r.logged]

\* bound.updateComponents() or bound.updateComponents(currentPropertyValue)
UpdateComponents(b, hasHint) ==
    /\ bound[b].exists
    /\ hasHint => bindings[b].propertyName # NoProperty
    /\ Updated(b, updateComponents(bound, b,
                     IF hasHint THEN <<prop[bindings[b].propertyName]>> ELSE <<>>,
                     <<>>, heap))
    /\ UNCHANGED <<bindings, prop, serviceVars, modalVars>>

\* the state after a read of bound.value gave r
WasRead(b, r) ==
    /\ r.heap <= MaxHeap
    /\ heap' = r.heap
    /\ lastOp' = [NoOp EXCEPT !.op = "value", !.b = b, !.err = r.err,
                              !.v = r.v, !.reads = r.reads]

\* a read of bound.value
ReadValue(b) ==
    /\ bound[b].exists
    /\ WasRead(b, BoundValue(bound, b, heap))
    /\ UNCHANGED <<bindings, prop, bound, dirty, serviceVars, modalVars>>

(***************************************************************************)
(* Bindings constructed from source strings, and their readers             *)
(***************************************************************************)
\* addFilter is called on bindings with fewer filters than this
MaxAdded == 1

\* source strings: a (negated) property, a path, filters, unknown filters
Src(name, filters) == name \o filters

NegatedNames == {<<"!", "p">>, <<"!", "!", "p">>, <<"!", "p", ".", "q">>}

PlainNames == {<<"p">>, <<"p", ".", "q">>, <<"p", ".", "q", ".", "q">>, <<"x">>}

\* what `!name` and `!!name` stand for: name|! and name|!!
Rewritten(name) ==
    IF name[2] = "!" THEN SubSeq(name, 3, Len(name)) \o <<"|", "!", "!">>
    ELSE Tail(name) \o <<"|", "!">>

\* filter lists that follow a name
FilterLists == {<<>>, <<"|", "s">>, <<"|", "s", "|", "u", "c">>,
                <<"|", "u", "c", "|", "s">>, <<"|", "s", "|", "!">>}

\* filter segments, some of them no key of Binding.filters
Segments ==
    {<<"s">>, <<" ", "u", "c", " ">>, <<"!">>, <<"n">>, <<>>, <<"x">>,
     <<"t", "o", "S", "t", "r", "i", "n", "g">>,
     <<"c", "o", "n", "s", "t", "r", "u", "c", "t", "o", "r">>,
     <<"d", "e", "c", "(", "2", ")">>, <<"x", "(", "2", ")">>, <<"(", "s", ")">>}

Sources ==
    {Src(name, fl) : name \in NegatedNames \cup PlainNames, fl \in FilterLists}
    \cup {Src(Rewritten(name), fl) : name \in NegatedNames, fl \in FilterLists}
    \cup {<<"p", "|">> \o seg : seg \in Segments}

\* a source with a negated name, with the name rewritten
RewrittenSource(source) ==
    Rewritten(Split(source, "|")[1])
    \o SubSeq(source, Len(Split(source, "|")[1]) + 1, Len(source))

IsNegated(source) == source # <<>> /\ source[1] = "!"

DefaultValues == {Undefined, Str(<<"d">>)}

\* the values the bound parent's property p takes for these bindings
ReaderValues ==
    {Undefined, Null, Bool(FALSE), Num(0), Str(<<>>), Str(<<"a", "b">>),
     Obj(1), Obj(2), Obj(3), Obj(4), Obj(5)}

ReaderOp ==
    [op |-> "init", b |-> None, src |-> <<>>, err |-> "", v |-> Undefined,
     nlog |-> 0]

\* every filter of binding b is an and / or term or one whose function the
\* model evaluates
Evaluable(b) ==
    \A i \in DOMAIN bindings[b].chain :
        \/ bindings[b].chain[i].child # None
        \/ bindings[b].chain[i].f \in ModelledFilters

\* the state after the constructor or addFilter gave r for binding b
Constructed(op, b, src, r) ==
    /\ bindings' = IF r.err = "" THEN [bindings EXCEPT ![b] = r.b] ELSE bindings
    /\ lastOp' = [ReaderOp EXCEPT !.op = op, !.b = b, !.src = src, !.err = r.err]

\* bindings[b] = new Binding(source, defaultValue); the second binding is
\* the rewritten form of a first one that has a negated name
Construct(b, source, defaultValue) ==
    /\ bindings[b].kind = "none"
    /\ b = 2 => /\ bindings[1].kind = "plain"
                /\ IsNegated(bindings[1].source)
                /\ source = RewrittenSource(bindings[1].source)
                /\ defaultValue = bindings[1].defaultValue
    /\ Constructed("construct", b, source, Binding(source, defaultValue))
    /\ UNCHANGED <<prop, bound, dirty, heap, serviceVars, modalVars>>

\* the result r of addFilter, with the filter written after the source
WithSource(r, source) == [r EXCEPT !.b.source = source]

\* bindings[b].addFilter(fmt)
AddFilter(b, fmt) ==
    /\ bindings[b].kind = "plain"
    /\ Len(bindings[b].chain) < MaxAdded
    /\ Constructed("addFilter", b, fmt,
                   WithSource(addFilter(bindings[b], fmt),
                              bindings[b].source \o <<"|">> \o fmt))
    /\ UNCHANGED <<prop, bound, dirty, heap, serviceVars, modalVars>>

\* the bound parent's property p is assigned
SetParentProperty(v) ==
    /\ v # prop["p"]
    /\ prop' = [prop EXCEPT !["p"] = v]
    /\ lastOp' = [ReaderOp EXCEPT !.op = "set"]
    /\ UNCHANGED <<bindings, bound, dirty, heap, serviceVars, modalVars>>

\* the state after the reader of binding b gave r
WasEvaluated(b, r) ==
    /\ r.heap <= MaxHeap
    /\ heap' = r.heap
    /\ lastOp' = [ReaderOp EXCEPT !.op = "getValue", !.b = b, !.err = r.err,
                                  !.v = r.v, !.nlog = r.nlog]

\* new binding.Reader(boundParent).getValue()
ReaderGetValue(b) ==
    /\ bindings[b].kind = "plain"
    /\ Evaluable(b)
    /\ WasEvaluated(b, GetValue(bound, b, FALSE, Undefined, heap))
    /\ UNCHANGED <<bindings, prop, bound, dirty, serviceVars, modalVars>>

(***************************************************************************)
(* Format bindings made with bindf and read through their Bounds           *)
(***************************************************************************)
\* the most `rest` arguments passed to bindf
MaxRest == 2

\* the numbers the properties p and q take
Counts == {Num(0), Num(1), Num(2)}

\* bind("p").and("q"): the binding and the binding nested in it
AndTable ==
    <<[NewBinding("p", <<Combine("and", 2)>>, Undefined, None, <<2>>)
          EXCEPT !.source = <<"p">>],
      [NewBinding("q", <<>>, Undefined, 1, <<>>) EXCEPT !.source = <<"q">>]>>

\* the bindings that exist before bindf is called: none, bind("p"),
\* bind("p") and bind("q"), bind("p").and("q"), the last and bind("q")
RestTables ==
    {<<>>,
     <<Binding(<<"p">>, Undefined).b>>,
     <<Binding(<<"p">>, Undefined).b, Binding(<<"q">>, Undefined).b>>,
     AndTable,
     Append(AndTable, Binding(<<"q">>, Undefined).b)}

\* the format texts: "x", "${p}#{a/b}", "#{a/b}${p}", ...
Templates ==
    {<<"x">>,
     <<"$", "{", "p", "}", "#", "{", "a", "/", "b", "}">>,
     <<"#", "{", "a", "/", "b", "}", "$", "{", "p", "}">>,
     <<"$", "{", "p", "}", "$", "{", "q", "}", "#", "{", "a", "/", "b", "}">>,
     <<"$", "{", "p", "}", "$", "{", "q", "}", "#", "{", "1", ":", "a", "/", "b", "}">>,
     <<"$", "{", "%", "1", "}", "$", "{", "p", "}", "#", "{", "2", ":", "a", "/", "b", "}">>,
     <<"$", "{", "%", "1", "}", "#", "{", "a", "/", "b", "}">>,
     <<"$", "{", "%", "2", "}", "$", "{", "%", "1", "}">>,
     <<"$", "{", "%", "0", "}">>,
     <<"$", "{", "%", "1", "}", "$", "{", "%", "3", "}">>,
     <<"a", "*", "*", "*", "{", "c", "}", "*", "*", "*", "b">>,
     <<"*", "*", "*", "{", "$", "{", "p", "}", "}", "*", "*", "*">>,
     <<"$", "{", "p", "|", "x", "}">>,
     <<"$", "{", " ", "%", "1", " ", "}", "$", "{", "q", "|", "s", "}">>,
     <<"$", "{", "p", "}", "$", "{", "p", "}", "$", "{", "q", "}", "#", "{", "3", ":", "0", "/", "1", "/", "2", "}">>,
     <<"$", "{", "q", "}", "$", "{", "p", "}", "#", "{", "0", "/", "1", "/", "2", "}", "$", "{", "q", "}">>}

\* the bindings of a table that are nested in no other
TopLevel(table) == {b \in DOMAIN table : table[b].parent = None}

\* the `rest` arguments: bindings of the table and values that are no Binding
RestArguments(table) ==
    UNION {[1..n -> TopLevel(table) \cup {NotABindingArg}] : n \in 0..MaxRest}

FormatOp ==
    [op |-> "init", b |-> None, src |-> <<>>, rest |-> <<>>, err |-> "",
     v |-> Undefined]

\* the format binding of the table, None when there is none
FormatBinding ==
    IF \E b \in DOMAIN bindings : bindings[b].kind = "format"
    THEN CHOOSE b \in DOMAIN bindings : bindings[b].kind = "format"
    ELSE None

\* the state after the constructor gave r
Formatted(text, rest, r) ==
    /\ bindings' = r.table
    /\ lastOp' = [FormatOp EXCEPT !.op = "bindf", !.b = r.this, !.src = text,
                                  !.rest = rest, !.err = r.err]

\* bindf(text, ...rest)
Bindf(text, rest) ==
    /\ lastOp.op = "init"
    /\ Formatted(text, rest, StringFormatBinding(bindings, text, rest))
    /\ UNCHANGED <<prop, bound, dirty, heap, serviceVars, modalVars>>

\* the bound parent registers a Bound for the format binding and for every
\* binding nested in it
BindToParent ==
    /\ FormatBinding # None
    /\ bound = <<>>
    /\ bound' = [b \in DOMAIN bindings |->
                    [NoBound EXCEPT !.exists = bindings[b].kind # "none",
                                    !.parent = bindings[b].parent]]
    /\ lastOp' = [lastOp EXCEPT !.op = "bind"]
    /\ UNCHANGED <<bindings, prop, dirty, heap, serviceVars, modalVars>>

\* the bound parent's property is assigned a number
SetNumber(name, v) ==
    /\ bound # <<>>
    /\ v # prop[name]
    /\ prop' = [prop EXCEPT ![name] = v]
    /\ lastOp' = [lastOp EXCEPT !.op = "set", !.v = Undefined, !.err = ""]
    /\ UNCHANGED <<bindings, bound, dirty, heap, serviceVars, modalVars>>

\* the state after the format reader gave r
WasFormatted(r) ==
    /\ r.heap <= MaxHeap
    /\ heap' = r.heap
    /\ lastOp' = [lastOp EXCEPT !.op = "getValue", !.err = r.err, !.v = r.v]

\* new binding.Reader(boundParent).getValue() of the format binding
FormatGetValue ==
    /\ bound # <<>>
    /\ \A b \in DOMAIN bindings : Evaluable(b)
    /\ WasFormatted(GetValue(bound, FormatBinding, FALSE, Undefined, heap))
    /\ UNCHANGED <<bindings, prop, bound, dirty, serviceVars, modalVars>>

\* format bindings constructed in one behaviour
MaxFormats == 2

\* the format texts "${%1}", "${%1}${q}" and "${p}"
ChainTemplates ==
    {<<"$", "{", "%", "1", "}">>,
     <<"$", "{", "%", "1", "}", "$", "{", "q", "}">>,
     <<"$", "{", "p", "}">>}

\* the `rest` arguments: nothing, or the Binding made first, whether it was
\* passed to bindf before or not
FirstBinding == {<<>>, <<1>>}

\* the format bindings of the table
FormatBindings == {b \in DOMAIN bindings : bindings[b].kind = "format"}

\* bindf(text, ...rest), called once more
BindfAgain(text, rest) ==
    /\ bound = <<>>
    /\ Cardinality(FormatBindings) < MaxFormats
    /\ Len(bindings) <= 2 * MaxFormats
    /\ Formatted(text, rest, StringFormatBinding(bindings, text, rest))
    /\ UNCHANGED <<prop, bound, dirty, heap, serviceVars, modalVars>>

\* updateComponents() on the Bound of a binding nested in a format binding
UpdateNested(b) ==
    /\ b \in DOMAIN bound
    /\ bindings[b].kind = "plain"
    /\ UpdateComponents(b, FALSE)

(***************************************************************************)
(* ManagedService, ServiceContainer and the @service decorator.            *)
(* A ManagedReference is a slot (an index of slotTarget); the registry is  *)
(* the record [services, slotTarget, svc] of the three variables.          *)
(***************************************************************************)
\* ManagedService instances constructed in one behaviour
MaxServices == 2

\* properties decorated with @service in one behaviour
MaxDecorated == 1

\* service names used: "", "a", "A", "b"
ServiceNames == {<<>>, <<"a">>, <<"A">>, <<"b">>}

\* names given to @service: "a", "A", "b"
DecoratedNames == ServiceNames \ {<<>>}

\* keys of the services map
ServiceKeys == ServiceNames \cup {toUpperCase(n) : n \in ServiceNames}

\* new ManagedService(name)
NewManagedService(name) == [name |-> name, destroyed |-> FALSE, registered |-> FALSE]

\* the registry as the operations see it
Registry == [services |-> services, slotTarget |-> slotTarget, svc |-> svc]

\* ref.target = s: the reference owns its target, a target that is replaced
\* is destroyed in the same step; assigning the current target changes nothing
SetTarget(reg, ref, s) ==
    IF reg.slotTarget[ref] = s THEN reg
    ELSE IF reg.slotTarget[ref] = None
    THEN [reg EXCEPT !.slotTarget[ref] = s]
    ELSE [reg EXCEPT !.slotTarget[ref] = s,
                     !.svc[reg.slotTarget[ref]].destroyed = TRUE]

\* services.set(ucName, new ManagedReference(s)); s may be None
NewReference(reg, ucName, s) ==
    [reg EXCEPT !.slotTarget = Append(@, s),
                !.services[ucName] = Len(reg.slotTarget) + 1]

\* a managed object is destroyed: every reference to it becomes undefined
DestroyObject(reg, s) ==
    [reg EXCEPT !.svc[s].destroyed = TRUE,
                !.slotTarget = [i \in DOMAIN @ |-> IF @[i] = s THEN None ELSE @[i]]]

registerAsNew(reg, s) ==
    IF toUpperCase(reg.svc[s].name) = <<>>
    THEN [reg |-> reg, err |-> "Service name cannot be blank"]
    ELSE [reg |-> NewReference(reg, toUpperCase(reg.svc[s].name), s), err |-> ""]

\* ManagedService.register() on instance s
register(reg, s) ==
    IF toUpperCase(reg.svc[s].name) = <<>>
    THEN [reg |-> reg, err |-> "Service name cannot be blank"]
    ELSE IF reg.services[toUpperCase(reg.svc[s].name)] # None
    THEN [reg |-> SetTarget(reg, reg.services[toUpperCase(reg.svc[s].name)], s),
          err |-> ""]
    ELSE [reg |-> NewReference(reg, toUpperCase(reg.svc[s].name), s), err |-> ""]

findCaseSensitive(reg, name) ==
    IF reg.services[name] = None THEN None
    ELSE reg.slotTarget[reg.services[name]]

\* ManagedService.find(name): ref && ref.target
find(reg, name) ==
    IF reg.services[toUpperCase(name)] = None THEN None
    ELSE reg.slotTarget[reg.services[toUpperCase(name)]]

serviceAlwaysNew(reg, name) ==
    [reg |-> NewReference(reg, toUpperCase(name), None),
     ref |-> Len(reg.slotTarget) + 1]

\* @service(name): the reference the decorated property is fixed to
service(reg, name) ==
    IF reg.services[toUpperCase(name)] = None
    THEN [reg |-> NewReference(reg, toUpperCase(name), None),
          ref |-> Len(reg.slotTarget) + 1]
    ELSE [reg |-> reg, ref |-> reg.services[toUpperCase(name)]]

\* reading a decorated property: the target of its fixed reference
DecoratedValue(i) == slotTarget[decorated[i].ref]

ServiceOp ==
    [op |-> "init", s |-> None, name |-> <<>>, prev |-> None, result |-> None,
     err |-> ""]

SetRegistry(reg) ==
    /\ services' = reg.services
    /\ slotTarget' = reg.slotTarget
    /\ svc' = reg.svc

\* new ManagedService(name)
NewService(name) ==
    /\ Len(svc) < MaxServices
    /\ svc' = Append(svc, NewManagedService(name))
    /\ lastOp' = [ServiceOp EXCEPT !.op = "new"]
    /\ UNCHANGED <<services, slotTarget, decorated, lastReg, boundVars, modalVars>>

\* the state after register() on instance s gave r
Registered(s, r) ==
    /\ services' = r.reg.services
    /\ slotTarget' = r.reg.slotTarget
    /\ svc' = IF r.err = "" THEN [r.reg.svc EXCEPT ![s].registered = TRUE]
              ELSE r.reg.svc
    /\ lastReg' = IF r.err = ""
                  THEN [lastReg EXCEPT ![toUpperCase(svc[s].name)] = s]
                  ELSE lastReg
    /\ lastOp' = [ServiceOp EXCEPT !.op = "register", !.s = s, !.err = r.err,
                                   !.prev = find(Registry, svc[s].name)]

\* s.register() on an instance that is not destroyed
Register(s) ==
    /\ s \in DOMAIN svc
    /\ ~svc[s].destroyed
    /\ Registered(s, register(Registry, s))
    /\ UNCHANGED <<decorated, boundVars, modalVars>>

\* a service is destroyed directly
DestroyService(s) ==
    /\ s \in DOMAIN svc
    /\ ~svc[s].destroyed
    /\ SetRegistry(DestroyObject(Registry, s))
    /\ lastOp' = [ServiceOp EXCEPT !.op = "destroy"]
    /\ UNCHANGED <<decorated, lastReg, boundVars, modalVars>>

\* the state after @service(name) gave r
Decorated(name, r) ==
    /\ SetRegistry(r.reg)
    /\ decorated' = Append(decorated, [name |-> name, ref |-> r.ref,
                                       placeholder |-> r.ref > Len(slotTarget)])
    /\ lastOp' = [ServiceOp EXCEPT !.op = "decorate"]

\* a class with a property decorated with @service(name) is defined
Decorate(name) ==
    /\ Len(decorated) < MaxDecorated
    /\ Decorated(name, service(Registry, name))
    /\ UNCHANGED <<lastReg, boundVars, modalVars>>

\* ManagedService.find(name)
Find(name) ==
    /\ lastOp' = [ServiceOp EXCEPT !.op = "find", !.name = name,
                                   !.result = find(Registry, name)]
    /\ UNCHANGED <<serviceVars, boundVars, modalVars>>

\* a decorated property is read
ReadDecorated(i) ==
    /\ i \in DOMAIN decorated
    /\ lastOp' = [ServiceOp EXCEPT !.op = "read", !.result = DecoratedValue(i)]
    /\ UNCHANGED <<serviceVars, boundVars, modalVars>>

(***************************************************************************)
(* UIModalController and its observer.  The controller and what surrounds  *)
(* it is the record [modal, ctl, obs, rctx, output, calls]:                *)
(*   modal  controller.modal: the instance shown, None when undefined      *)
(*   ctl    ModalClass      a modal class was preset (_ModalClass)         *)
(*          content         a reference component is found under content   *)
(*          renderContext   a bound parent Application with renderContext  *)
(*          made            instances of the modal class constructed       *)
(*          destroyed       the instances destroyed                        *)
(*          rendered        the instances whose render() got a proxy       *)
(*          modalShadeClickToClose, modalShadeOpacity, placement           *)
(*                          the controller's properties of these names     *)
(*   obs    renderCallback  the observer's _renderCallback: a callback of  *)
(*                          the chain of that number, None when undefined  *)
(*   rctx   the chains handed out by renderContext.getRenderCallback():    *)
(*          "new", "shown" (last call had output), "removed" (last call    *)
(*          had undefined)                                                 *)
(*   output the fields modalShadeClickToClose, modalShadeOpacity,          *)
(*          placement and placementRef of the output object the modal      *)
(*          passes when it passes an output with an element                *)
(*   calls  the calls made on the render context and the modal, in order   *)
(***************************************************************************)
\* modal instances constructed in one behaviour
MaxModals == 3

\* UIRenderPlacement.NONE (falsy), PAGE and DIALOG
PlacementNone == Num(0)

PlacementPage == Num(1)

PlacementDialog == Num(2)

\* the component _getReferenceComponent() finds, and another component
ReferenceComponent == Obj(1)

OtherComponent == Obj(2)

NewController(ModalClass, content, renderContext) ==
    [ModalClass |-> ModalClass, content |-> content,
     renderContext |-> renderContext, made |-> 0, destroyed |-> {},
     rendered |-> {}, modalShadeClickToClose |-> Bool(TRUE),
     modalShadeOpacity |-> Undefined, placement |-> PlacementDialog]

\* an output object with the four fields
Output(clickToClose, opacity, placement, placementRef) ==
    [modalShadeClickToClose |-> clickToClose, modalShadeOpacity |-> opacity,
     placement |-> placement, placementRef |-> placementRef]

\* an output object that sets none of the four
NoOutput == Output(Undefined, Undefined, Undefined, Undefined)

NewObserver == [renderCallback |-> None]

\* events a child emits: [component |-> it is a ComponentEvent, name |-> ...]
Event(component, name) == [component |-> component, name |-> name]

Events ==
    {Event(TRUE, "ShowModal"), Event(TRUE, "CloseModal"), Event(TRUE, "Click"),
     Event(FALSE, "ShowModal"), Event(FALSE, "Change")}

NoEvent == Event(FALSE, "")

\* what a modal passes to its render callback: nothing, an output without an
\* element, an output with an element
Outputs == {"undefined", "noelement", "element"}

World ==
    [modal |-> modal, ctl |-> ctl, obs |-> obs, rctx |-> rctx, output |-> output,
     calls |-> <<>>]

\* this._renderCallback = this._renderCallback(out): the chain takes the
\* output and returns the callback for the next call
InvokeRenderCallback(w, out) ==
    [w EXCEPT !.rctx[w.obs.renderCallback] =
                  IF out = "element" THEN "shown" ELSE "removed",
              !.calls = Append(@, [f |-> "renderCallback",
                                   chain |-> w.obs.renderCallback, out |-> out])]

\* this._renderCallback = renderContext.getRenderCallback(), then
\* this.controller.modal.render(callbackProxy)
Render(w) ==
    [w EXCEPT !.rctx = Append(@, "new"),
              !.obs.renderCallback = Len(w.rctx) + 1,
              !.ctl.rendered = @ \cup {w.modal},
              !.calls = @ \o <<[f |-> "getRenderCallback",
                                chain |-> Len(w.rctx) + 1, out |-> ""],
                               [f |-> "render", chain |-> Len(w.rctx) + 1,
                                out |-> ""]>>]

\* observer._getReferenceComponent()
getReferenceComponent(w) == w.ctl.content

\* onModalChange, from `if (this.controller.modal)` on
RenderModal(w) ==
    IF w.modal # None /\ getReferenceComponent(w) /\ w.ctl.renderContext
    THEN Render(w)
    ELSE w

onModalChangeNoTeardown(w) == RenderModal(w)

\* observer.onModalChange()
onModalChange(w) ==
    RenderModal(IF w.obs.renderCallback # None
                THEN InvokeRenderCallback(w, "undefined")
                ELSE w)

\* controller.modal = m (managed child property): the instance held before
\* is destroyed, and the observer runs when the value changes
SetModal(w, m) ==
    IF w.modal = m THEN w
    ELSE onModalChange(
             [w EXCEPT !.modal = m,
                       !.ctl.destroyed =
                           IF w.modal = None THEN @ ELSE @ \cup {w.modal}])

showModalAlways(w) ==
    SetModal([w EXCEPT !.ctl.made = @ + 1], w.ctl.made + 1)

\* controller.showModal()
showModal(w) ==
    IF w.ctl.ModalClass
    THEN SetModal([w EXCEPT !.ctl.made = @ + 1], w.ctl.made + 1)
    ELSE w

\* controller.closeModal()
closeModal(w) == SetModal(w, None)

\* the handler handing ShowModal and CloseModal on as well
propagateChildEventsUnconsumed(w, e) ==
    IF e.component
    THEN IF e.name = "ShowModal" THEN [w |-> showModal(w), ret |-> e]
         ELSE IF e.name = "CloseModal" THEN [w |-> closeModal(w), ret |-> e]
         ELSE [w |-> w, ret |-> e]
    ELSE [w |-> w, ret |-> NoEvent]

\* the function given to propagateChildEvents: the world afterwards and the
\* event handed on to the controller's parent
propagateChildEvents(w, e) ==
    IF e.component
    THEN IF e.name = "ShowModal" THEN [w |-> showModal(w), ret |-> NoEvent]
         ELSE IF e.name = "CloseModal" THEN [w |-> closeModal(w), ret |-> NoEvent]
         ELSE [w |-> w, ret |-> e]
    ELSE [w |-> w, ret |-> NoEvent]

\* the defaults written over whatever the output holds
SetDefaultsAlways(c, o, ref) ==
    Output(c.modalShadeClickToClose, c.modalShadeOpacity, c.placement, ref)

\* if (output.modalShadeClickToClose === undefined) ..., if
\* (output.modalShadeOpacity === undefined) ..., if (!output.placement) ...:
\* output o after the proxy of controller c, reference component ref, set them
SetDefaults(c, o, ref) ==
    [modalShadeClickToClose |->
         IF o.modalShadeClickToClose = Undefined THEN c.modalShadeClickToClose
         ELSE o.modalShadeClickToClose,
     modalShadeOpacity |->
         IF o.modalShadeOpacity = Undefined THEN c.modalShadeOpacity
         ELSE o.modalShadeOpacity,
     placement |-> IF ~Truthy(o.placement) THEN c.placement ELSE o.placement,
     placementRef |-> IF ~Truthy(o.placement) THEN ref ELSE o.placementRef]

\* the reference component as a value
ReferenceOf(w) == IF getReferenceComponent(w) THEN ReferenceComponent ELSE Undefined

\* the proxy's branch for an output with an element
WithDefaults(w) == [w EXCEPT !.output = SetDefaults(w.ctl, w.output, ReferenceOf(w))]

callbackProxyIgnoresElement(w, out) ==
    IF w.obs.renderCallback = None THEN w
    ELSE IF out # "undefined" THEN InvokeRenderCallback(w, out)
    ELSE SetModal(InvokeRenderCallback(w, "undefined"), None)

\* callbackProxy(output): every proxy closes over the same observer
callbackProxy(w, out) ==
    IF w.obs.renderCallback = None THEN w
    ELSE IF out = "element" THEN InvokeRenderCallback(WithDefaults(w), out)
    ELSE SetModal(InvokeRenderCallback(w, "undefined"), None)

ModalOp ==
    [op |-> "init", e |-> NoEvent, ret |-> NoEvent, m |-> None, out |-> "",
     prev |-> None, calls |-> <<>>, given |-> NoOutput]

SetWorld(w) ==
    /\ modal' = w.modal
    /\ ctl' = w.ctl
    /\ obs' = w.obs
    /\ rctx' = w.rctx
    /\ output' = w.output

\* the state after the handler of propagateChildEvents gave r for event e
Handled(e, r) ==
    /\ r.w.ctl.made <= MaxModals
    /\ SetWorld(r.w)
    /\ lastOp' = [ModalOp EXCEPT !.op = "event", !.e = e, !.ret = r.ret,
                                 !.prev = modal, !.calls = r.w.calls]

\* a child of the controller emits event e
ChildEvent(e) ==
    /\ Handled(e, propagateChildEvents(World, e))
    /\ UNCHANGED <<boundVars, serviceVars>>

\* the state after a call of the proxy gave w
Proxied(m, out, w) ==
    /\ SetWorld(w)
    /\ lastOp' = [ModalOp EXCEPT !.op = "proxy", !.m = m, !.out = out,
                                 !.prev = modal, !.calls = w.calls,
                                 !.given = output]

\* modal instance m, shown now or earlier, calls the proxy its render() got
RenderOutput(m, out) ==
    /\ m \in ctl.rendered
    /\ Proxied(m, out, callbackProxy(World, out))
    /\ UNCHANGED <<boundVars, serviceVars>>

\* the application gets or loses its render context
SetRenderContext(b) ==
    /\ ctl.renderContext # b
    /\ ctl' = [ctl EXCEPT !.renderContext = b]
    /\ lastOp' = [ModalOp EXCEPT !.op = "env"]
    /\ UNCHANGED <<modal, obs, rctx, output, boundVars, serviceVars>>

\* the values an output object or the controller holds in the four fields
ClickToCloseValues == {Undefined, Bool(FALSE)}

OpacityValues == {Undefined, Num(5)}

PlacementValues == {Undefined, PlacementNone, PlacementPage}

PlacementRefValues == {Undefined, OtherComponent}

\* the modal makes a new output object o for its next render
NewOutput(o) ==
    /\ output # o
    /\ output' = o
    /\ lastOp' = [ModalOp EXCEPT !.op = "output"]
    /\ UNCHANGED <<modal, ctl, obs, rctx, boundVars, serviceVars>>

\* the controller's modalShadeClickToClose, modalShadeOpacity and placement
\* are assigned
SetPresets(clickToClose, opacity, placement) ==
    /\ clickToClose # Undefined
    /\ <<ctl.modalShadeClickToClose, ctl.modalShadeOpacity, ctl.placement>>
           # <<clickToClose, opacity, placement>>
    /\ ctl' = [ctl EXCEPT !.modalShadeClickToClose = clickToClose,
                          !.modalShadeOpacity = opacity,
                          !.placement = placement]
    /\ lastOp' = [ModalOp EXCEPT !.op = "presets"]
    /\ UNCHANGED <<modal, obs, rctx, output, boundVars, serviceVars>>

(***************************************************************************)
(* Initial state                                                           *)
(***************************************************************************)
ServiceInit ==
    /\ services = [k \in ServiceKeys |-> None]
    /\ slotTarget = <<>>
    /\ svc = <<>>
    /\ decorated = <<>>
    /\ lastReg = [k \in ServiceKeys |-> None]

ModalInit ==
    /\ modal = None
    /\ ctl = NewController(FALSE, FALSE, FALSE)
    /\ obs = NewObserver
    /\ rctx = <<>>
    /\ output = NoOutput

BoundInit ==
    /\ prop = [n \in PropertyNames |-> Undefined]
    /\ bound = [b \in BindingIds |-> NoBound]
    /\ dirty = {}
    /\ heap = 1

\* one binding, bind("p|...")
InitBound ==
    /\ bindings \in PlainTables
    /\ BoundInit
    /\ lastOp = NoOp
    /\ ServiceInit
    /\ ModalInit

\* a format binding or an and / or binding, with the bindings nested in it
InitNested ==
    /\ bindings \in NestedTables
    /\ BoundInit
    /\ lastOp = NoOp
    /\ ServiceInit
    /\ ModalInit

NextBound ==
    \/ \E b \in BindingIds : CreateBound(b)
    \/ \E b \in BindingIds, c \in Consumers : AddConsumer(b, c)
    \/ \E b \in BindingIds, c \in Consumers : RemoveConsumer(b, c)
    \/ \E name \in PropertyNames, v \in PropValues : SetProperty(name, v)
    \/ \E b \in BindingIds, hasHint \in BOOLEAN : UpdateComponents(b, hasHint)
    \/ \E b \in BindingIds : ReadValue(b)

SpecBound == InitBound /\ [][NextBound]_vars

SpecNested == InitNested /\ [][NextBound]_vars

\* a format binding or an and / or binding with two nested bindings on the
\* same property
InitShared ==
    /\ bindings \in SharedPropertyTables
    /\ BoundInit
    /\ lastOp = NoOp
    /\ ServiceInit
    /\ ModalInit

SpecShared == InitShared /\ [][NextBound]_vars

\* no binding, no service: a controller with or without a preset modal class,
\* with or without a reference component
InitModal ==
    /\ bindings = [b \in BindingIds |-> NoBinding]
    /\ BoundInit
    /\ lastOp = NoOp
    /\ ServiceInit
    /\ modal = None
    /\ ctl \in {NewController(c, r, FALSE) : c \in BOOLEAN, r \in BOOLEAN}
    /\ obs = NewObserver
    /\ rctx = <<>>
    /\ output = NoOutput

NextModal ==
    \/ \E e \in Events : ChildEvent(e)
    \/ \E m \in 1..MaxModals, out \in Outputs : RenderOutput(m, out)
    \/ \E b \in BOOLEAN : SetRenderContext(b)

SpecModal == InitModal /\ [][NextModal]_vars

\* a controller with a modal class, a reference component and a render
\* context; the modal's output objects and the controller's properties vary
InitRender ==
    /\ bindings = [b \in BindingIds |-> NoBinding]
    /\ BoundInit
    /\ lastOp = NoOp
    /\ ServiceInit
    /\ modal = None
    /\ ctl = NewController(TRUE, TRUE, TRUE)
    /\ obs = NewObserver
    /\ rctx = <<>>
    /\ output = NoOutput

NextRender ==
    \/ \E e \in {Event(TRUE, "ShowModal"), Event(TRUE, "CloseModal")} : ChildEvent(e)
    \/ \E m \in 1..MaxModals, out \in Outputs : RenderOutput(m, out)
    \/ \E c \in ClickToCloseValues, o \in OpacityValues, p \in PlacementValues,
          r \in PlacementRefValues : NewOutput(Output(c, o, p, r))
    \/ \E c \in {Bool(TRUE), Bool(FALSE)}, o \in OpacityValues,
          p \in {PlacementDialog, PlacementNone} : SetPresets(c, o, p)

SpecRender == InitRender /\ [][NextRender]_vars

\* no binding, no controller: the service registry
InitService ==
    /\ bindings = [b \in BindingIds |-> NoBinding]
    /\ BoundInit
    /\ lastOp = NoOp
    /\ ServiceInit
    /\ ModalInit

NextService ==
    \/ \E name \in ServiceNames : NewService(name)
    \/ \E s \in 1..MaxServices : Register(s)
    \/ \E s \in 1..MaxServices : DestroyService(s)
    \/ \E name \in DecoratedNames : Decorate(name)
    \/ \E name \in ServiceNames : Find(name)
    \/ \E i \in 1..MaxDecorated : ReadDecorated(i)

SpecService == InitService /\ [][NextService]_vars

\* no binding yet: bindings are constructed from source strings
InitReader ==
    /\ bindings = [b \in BindingIds |-> NoBinding]
    /\ BoundInit
    /\ lastOp = NoOp
    /\ ServiceInit
    /\ ModalInit

NextReader ==
    \/ \E b \in {1, 2}, source \in Sources, d \in DefaultValues : Construct(b, source, d)
    \/ \E fmt \in Segments : AddFilter(1, fmt)
    \/ \E v \in ReaderValues : SetParentProperty(v)
    \/ \E b \in {1, 2} : ReaderGetValue(b)

SpecReader == InitReader /\ [][NextReader]_vars

\* the bindings passed to bindf exist, p is 1 and q is 2
InitFormat ==
    /\ bindings \in RestTables
    /\ prop = [n \in PropertyNames |-> IF n = "p" THEN Num(1) ELSE Num(2)]
    /\ bound = <<>>
    /\ dirty = {}
    /\ heap = 1
    /\ lastOp = FormatOp
    /\ ServiceInit
    /\ ModalInit

NextFormat ==
    \/ \E text \in Templates, rest \in RestArguments(bindings) : Bindf(text, rest)
    \/ BindToParent
    \/ \E name \in PropertyNames, v \in Counts : SetNumber(name, v)
    \/ FormatGetValue

SpecFormat == InitFormat /\ [][NextFormat]_vars

\* bind("p") or bind("p").and("q") exists; format bindings are constructed
\* one after the other, and may be given the same Binding
InitChain ==
    /\ bindings \in {<<Binding(<<"p">>, Undefined).b>>, AndTable}
    /\ prop = [n \in PropertyNames |-> IF n = "p" THEN Num(1) ELSE Num(2)]
    /\ bound = <<>>
    /\ dirty = {}
    /\ heap = 1
    /\ lastOp = FormatOp
    /\ ServiceInit
    /\ ModalInit

NextChain ==
    \/ \E text \in ChainTemplates, rest \in FirstBinding : BindfAgain(text, rest)
    \/ BindToParent
    \/ \E name \in PropertyNames, v \in Counts : SetNumber(name, v)
    \/ \E b \in 1..(3 * MaxFormats) : UpdateNested(b)

SpecChain == InitChain /\ [][NextChain]_vars

(***************************************************************************)
(* Properties of Binding.Bound                                             *)
(***************************************************************************)
\* the Bound the last updateComponents ended on, and what it did there
LastVisit == lastOp.visits[Len(lastOp.visits)]

IsUpdate == lastOp.op = "update" /\ Len(lastOp.visits) > 0

\* a value without the identity of a wrapper object made by the `_` filter
Erase(v) == [v EXCEPT !.w = 0]

PositionIn(list, c) == CHOOSE i \in DOMAIN list : list[i] = c

\* two evaluations end alike: the same exception, or the same value
SameResult(r, g) == r.err = g.err /\ (r.err = "" => Erase(r.v) = Erase(g.v))

\* C1: a second updateComponents on a Bound with consumers, no parent and a
\* valid cache, made right after a first one (so the source value is the
\* same), calls no update hook.
C1_SecondUpdateCallsNoHook ==
    [][\A b \in BindingIds :
          (/\ lastOp.op = "update" /\ lastOp.b = b /\ lastOp.err = ""
           /\ bound[b].exists /\ bound[b].updated
           /\ Len(bound[b].list) > 0 /\ bound[b].parent = None
           /\ lastOp'.op = "update" /\ lastOp'.b = b /\ prop' = prop)
          => lastOp'.calls = <<>>]_vars

\* C2: when updateComponents notifies (value changed, no parent), every bound
\* component that has an update hook is called with the new value whatever the
\* hooks of the others do; every failure is logged and none escapes.
C2_HookFailuresIsolated ==
    (IsUpdate /\ LastVisit.how = "notify") =>
        LET b == LastVisit.b
            list == bound[b].list
        IN  /\ \A i \in DOMAIN list :
                  HookOf(list[i]) # "missing" =>
                      \E k \in DOMAIN lastOp.calls :
                          lastOp.calls[k] = [b |-> b, c |-> list[i], v |-> LastVisit.v]
            /\ \A i \in DOMAIN list :
                  HookOf(list[i]) # "ok" =>
                      \E k \in DOMAIN lastOp.logged : lastOp.logged[k].c = list[i]
            /\ lastOp.err = ""

\* a component with a throwing hook and one without a hook precede or
\* accompany a component whose hook was still called
C2_Witness ==
    /\ IsUpdate /\ LastVisit.how = "notify"
    /\ Len(bound[LastVisit.b].list) = 2
    /\ HookOf(bound[LastVisit.b].list[1]) # "ok"
    /\ HookOf(bound[LastVisit.b].list[2]) = "ok"
    /\ Len(lastOp.logged) = 1
    /\ \E k \in DOMAIN lastOp.calls : lastOp.calls[k].c = bound[LastVisit.b].list[2]

\* C3: once updateComponents has been called after every property change,
\* reading Bound.value gives what the reader computes now (value or exception).
C3_ValueIsFresh ==
    dirty = {} =>
        \A b \in BindingIds :
            bound[b].exists =>
                SameResult(BoundValue(bound, b, heap),
                           GetValue(bound, b, FALSE, Undefined, heap))

\* C5: updateComponents on a Bound without components and without parent
\* runs no reader and calls no hook, and leaves the cache invalid; a read of
\* value with an invalid cache returns the reader's value and leaves it invalid.
C5_DetachedInvalidates ==
    [][\A b \in BindingIds :
          /\ (/\ bound[b].exists /\ Len(bound[b].list) = 0 /\ bound[b].parent = None
              /\ lastOp'.op = "update" /\ lastOp'.b = b)
             => /\ Len(lastOp'.visits) = 1
                /\ lastOp'.visits[1].how = "invalidate"
                /\ lastOp'.visits[1].reads = <<>>
                /\ lastOp'.calls = <<>> /\ lastOp'.logged = <<>> /\ lastOp'.err = ""
                /\ heap' = heap
                /\ ~hasValue(bound', b)
                /\ bound' = [bound EXCEPT ![b].updated = FALSE]
          /\ (/\ bound[b].exists /\ ~hasValue(bound, b)
              /\ lastOp'.op = "value" /\ lastOp'.b = b)
             => /\ SameResult(lastOp', GetValue(bound, b, FALSE, Undefined, heap))
                /\ ~hasValue(bound', b)]_vars

\* a valid cache was invalidated by updateComponents on a detached Bound
C5_Witness ==
    /\ IsUpdate /\ lastOp.visits[1].how = "invalidate" /\ lastOp.visits[1].was
    /\ ~hasValue(bound, lastOp.b)
    /\ prop["p"] # Undefined

\* C6: when updateComponents notifies, the hooks called are exactly those of
\* the components in the list, once each, in list order, with the new value,
\* and the value is in the cache when the call returns.
C6_NotifiesOnceInOrder ==
    (IsUpdate /\ LastVisit.how = "notify") =>
        LET b == LastVisit.b
            list == bound[b].list
            calls == lastOp.calls
        IN  /\ \A k \in DOMAIN calls :
                  /\ calls[k].b = b
                  /\ calls[k].v = bound[b].last
                  /\ \E i \in DOMAIN list : list[i] = calls[k].c
            /\ \A k, m \in DOMAIN calls :
                  k < m => PositionIn(list, calls[k].c) < PositionIn(list, calls[m].c)
            /\ Len(calls) = Cardinality({i \in DOMAIN list : HookOf(list[i]) # "missing"})
            /\ hasValue(bound, b) /\ bound[b].last = LastVisit.v

\* two components with a hook were called, in list order
C6_Witness ==
    /\ IsUpdate /\ LastVisit.how = "notify"
    /\ Len(lastOp.calls) = 2
    /\ bound[LastVisit.b].list = <<lastOp.calls[1].c, lastOp.calls[2].c>>
    /\ LastVisit.was

\* the parts of C4 that hold however the parent Bound is set up: the child
\* caches the new value, calls the parent's updateComponents once, without
\* arguments, and calls none of its own components' hooks
DelegatesUpward(i) ==
    LET c == lastOp.visits[i].b
        par == bound[c].parent
    IN  /\ par # None
        /\ hasValue(bound, c) /\ bound[c].last = lastOp.visits[i].v
        /\ i < Len(lastOp.visits)
        /\ lastOp.visits[i + 1].b = par
        /\ lastOp.visits[i + 1].args = <<c, <<>>>>
        /\ Cardinality({k \in DOMAIN lastOp.visits : lastOp.visits[k].b = par}) = 1
        /\ \A k \in DOMAIN lastOp.calls : lastOp.calls[k].b # c

\* the reads of Bound c's value that the visit after visit i made
ReadsOfChild(i) ==
    LET rds == lastOp.visits[i + 1].reads
    IN  {k \in DOMAIN rds : rds[k].b = lastOp.visits[i].b}

\* C4 as stated: after delegating, the parent's reader reads the child's
\* newly cached value.
C4_ParentAlwaysReadsChild ==
    IsUpdate =>
        \A i \in DOMAIN lastOp.visits :
            lastOp.visits[i].how = "delegate" =>
                /\ DelegatesUpward(i)
                /\ \E k \in ReadsOfChild(i) :
                      /\ lastOp.visits[i + 1].reads[k].cached
                      /\ lastOp.visits[i + 1].reads[k].v = lastOp.visits[i].v

\* C4 (amended): a Bound with a parent that computes a changed value caches
\* it, calls the parent's updateComponents once without arguments and calls
\* none of its own hooks.  A parent without components and without parent only
\* invalidates its cache; any other parent runs its reader, and every read
\* the reader makes of the child returns the newly cached value.  A format
\* binding's reader that returns makes that read; an and / or binding's reader
\* makes it unless its own operand decides the result.
C4_DelegatesToParent ==
    IsUpdate =>
        \A i \in DOMAIN lastOp.visits :
            lastOp.visits[i].how = "delegate" =>
                LET c == lastOp.visits[i].b
                    par == bound[c].parent
                    up == lastOp.visits[i + 1]
                IN  /\ DelegatesUpward(i)
                    /\ IF Len(bound[par].list) = 0 /\ bound[par].parent = None
                       THEN up.how = "invalidate" /\ up.reads = <<>>
                       ELSE /\ up.how # "invalidate"
                            /\ \A k \in ReadsOfChild(i) :
                                  up.reads[k].cached /\ up.reads[k].v = lastOp.visits[i].v
                            /\ (bindings[par].kind = "format" /\ up.how # "throw")
                                  => ReadsOfChild(i) # {}
                            /\ (bindings[par].kind = "plain" /\ up.how # "throw")
                                  => ((ReadsOfChild(i) # {}) <=>
                                      ((bindings[par].chain[1].f = "and")
                                          = Truthy(prop[bindings[par].propertyName])))

\* a child Bound with a component of its own delegated; the parent read the
\* child's new value and notified its own component
C4_Witness ==
    /\ IsUpdate /\ Len(lastOp.visits) = 2
    /\ lastOp.visits[1].how = "delegate" /\ lastOp.visits[1].was
    /\ Len(bound[lastOp.visits[1].b].list) > 0
    /\ lastOp.visits[2].how = "notify"
    /\ ReadsOfChild(1) # {}
    /\ Len(lastOp.calls) > 0

(***************************************************************************)
(* Properties of the service registry                                      *)
(***************************************************************************)
\* the instances registered under a name of key k that are not destroyed
ActiveFor(k) ==
    {s \in DOMAIN svc : /\ svc[s].registered
                        /\ ~svc[s].destroyed
                        /\ toUpperCase(svc[s].name) = k}

\* the last register() replaced another instance
Replaced ==
    /\ lastOp.op = "register"
    /\ lastOp.err = ""
    /\ lastOp.prev \notin {None, lastOp.s}

\* C7: for every uppercased name at most one registered instance is not
\* destroyed; a register() on s2 under a name held by another instance s1
\* leaves s2 as the target of the name's reference and s1 destroyed.
C7_ServiceUniqueness ==
    /\ \A k \in ServiceKeys : Cardinality(ActiveFor(k)) <= 1
    /\ Replaced =>
          /\ slotTarget[services[toUpperCase(svc[lastOp.s].name)]] = lastOp.s
          /\ svc[lastOp.prev].destroyed

\* an instance named "a" / "A" was replaced by one named in the other case
C7_Witness ==
    /\ Replaced
    /\ svc[lastOp.prev].name # svc[lastOp.s].name
    /\ svc[lastOp.prev].registered

\* a decorated property still reads the reference that the map holds for its
\* name, and resolves to the instance registered last while that one lives
ResolvesToLastRegistered(i) ==
    /\ decorated[i].ref = services[toUpperCase(decorated[i].name)]
    /\ (/\ lastReg[toUpperCase(decorated[i].name)] # None
        /\ ~svc[lastReg[toUpperCase(decorated[i].name)]].destroyed)
       => DecoratedValue(i) = lastReg[toUpperCase(decorated[i].name)]

\* C8: the reference held for an uppercased name is never replaced by a
\* later register() or @service, only its target changes; so a decorated
\* property resolves to the instance registered last under its name (while
\* that instance is not destroyed), also when it was decorated before.
C8_StableSlot ==
    /\ [](\A i \in DOMAIN decorated : ResolvesToLastRegistered(i))
    /\ [][\A k \in ServiceKeys :
             services[k] # None => services'[k] = services[k]]_vars

\* a property decorated first, then a registration and a re-registration
C8_Witness ==
    /\ Replaced
    /\ \E i \in DOMAIN decorated :
          /\ toUpperCase(decorated[i].name) = toUpperCase(svc[lastOp.s].name)
          /\ decorated[i].placeholder
          /\ DecoratedValue(i) = lastOp.s

\* C9: find(M) returns the instance registered last under the uppercased
\* form of M while it is not destroyed, whatever the case of M, and undefined
\* when no service was ever registered under that form.
C9_FindCaseInsensitive ==
    lastOp.op = "find" =>
        /\ (/\ lastReg[toUpperCase(lastOp.name)] # None
            /\ ~svc[lastReg[toUpperCase(lastOp.name)]].destroyed)
           => lastOp.result = lastReg[toUpperCase(lastOp.name)]
        /\ lastReg[toUpperCase(lastOp.name)] = None => lastOp.result = None

\* find("a") returned the service named "A", or the other way round
C9_Witness ==
    /\ lastOp.op = "find"
    /\ lastOp.result # None
    /\ svc[lastOp.result].name # lastOp.name

(***************************************************************************)
(* Properties of UIModalController                                         *)
(***************************************************************************)
HandledEvent(name) ==
    lastOp.op = "event" /\ lastOp.e = Event(TRUE, name)

\* the last operation obtained a render callback and gave the new modal's
\* render() a proxy for it
StartedRender ==
    /\ \E i \in DOMAIN lastOp.calls :
          /\ lastOp.calls[i].f = "getRenderCallback"
          /\ i < Len(lastOp.calls)
          /\ lastOp.calls[i + 1].f = "render"
          /\ lastOp.calls[i].chain = obs.renderCallback
    /\ modal \in ctl.rendered
    /\ rctx[obs.renderCallback] = "new"

\* ShowModal made a new instance the owned modal child
ShowedModal ==
    /\ modal = ctl.made
    /\ modal # None
    /\ modal # lastOp.prev
    /\ modal \notin ctl.destroyed

\* CloseModal left no modal and released the one there was
ClosedModal ==
    /\ modal = None
    /\ lastOp.prev # None => lastOp.prev \in ctl.destroyed

\* C10 as stated: ShowModal with a preset class always starts the render
\* callback chain of the new modal.
C10_ShowModalAlwaysRenders ==
    /\ (HandledEvent("ShowModal") /\ ctl.ModalClass) => (ShowedModal /\ StartedRender)
    /\ (HandledEvent("ShowModal") /\ ~ctl.ModalClass) => modal = None
    /\ HandledEvent("CloseModal") => ClosedModal

\* C10: ShowModal with a preset class makes a new instance the owned modal
\* child, and starts its render callback chain when the controller has a
\* reference component and a bound parent application with a render context
\* (without them no render callback is obtained); CloseModal leaves modal
\* undefined and the child released; without a preset class ShowModal
\* leaves modal undefined.
C10_ShowAndCloseModal ==
    /\ (HandledEvent("ShowModal") /\ ctl.ModalClass) =>
          /\ ShowedModal
          /\ IF ctl.content /\ ctl.renderContext
             THEN StartedRender
             ELSE \A i \in DOMAIN lastOp.calls :
                      lastOp.calls[i].f = "renderCallback"
    /\ (HandledEvent("ShowModal") /\ ~ctl.ModalClass) => modal = None
    /\ HandledEvent("CloseModal") => ClosedModal

\* a second ShowModal replaced a modal that was being rendered
C10_Witness ==
    /\ HandledEvent("ShowModal")
    /\ ctl.ModalClass
    /\ StartedRender
    /\ lastOp.prev # None
    /\ lastOp.prev \in ctl.destroyed

\* a call of the stored render callback
RenderCall(chain, out) == [f |-> "renderCallback", chain |-> chain, out |-> out]

\* the last operation was a call of the proxy while a modal was shown
ProxyCalled == lastOp.op = "proxy" /\ lastOp.prev # None

\* C11: a proxy call without output, or with an output that has no element,
\* made while a modal is shown, calls the stored render callback with
\* undefined and leaves modal undefined (the modal released); a call with an
\* output that has an element hands that output to the stored render callback
\* and leaves modal as it was.
C11_ProxyTearsDownOrForwards ==
    ProxyCalled =>
        IF lastOp.out = "element"
        THEN /\ lastOp.calls = <<RenderCall(obs.renderCallback, "element")>>
             /\ rctx[obs.renderCallback] = "shown"
             /\ modal = lastOp.prev
             /\ modal \notin ctl.destroyed
        ELSE /\ Len(lastOp.calls) > 0
             /\ lastOp.calls[1] = RenderCall(obs.renderCallback, "undefined")
             /\ \A i \in DOMAIN lastOp.calls : lastOp.calls[i].out = "undefined"
             /\ rctx[obs.renderCallback] = "removed"
             /\ modal = None
             /\ lastOp.prev \in ctl.destroyed

\* the modal shown called its proxy with an output that has no element
C11_Witness ==
    /\ ProxyCalled
    /\ lastOp.out = "noelement"
    /\ lastOp.m = lastOp.prev
    /\ modal = None

\* C12: every chain but the one the observer holds has been told undefined,
\* so at most one render cycle is active; an operation that obtains a render
\* callback for a new modal has called the callback held before with
\* undefined just before, and an event that changes modal while a callback
\* is held calls that callback with undefined before anything else.
C12_SingleRenderCycle ==
    /\ \A c \in DOMAIN rctx : c # obs.renderCallback => rctx[c] = "removed"
    /\ \A i \in DOMAIN lastOp.calls :
          (lastOp.calls[i].f = "getRenderCallback" /\ lastOp.calls[i].chain > 1)
          => /\ i > 1
             /\ lastOp.calls[i - 1] = RenderCall(lastOp.calls[i].chain - 1, "undefined")
    /\ (/\ lastOp.op = "event"
        /\ lastOp.prev # modal
        /\ Len(rctx) > Cardinality({i \in DOMAIN lastOp.calls :
                                       lastOp.calls[i].f = "getRenderCallback"}))
       => /\ Len(lastOp.calls) > 0
          /\ lastOp.calls[1].f = "renderCallback"
          /\ lastOp.calls[1].out = "undefined"

\* a modal that was being rendered is replaced by a new one, rendered too
C12_Witness ==
    /\ lastOp.op = "event"
    /\ Len(rctx) = 2
    /\ rctx[1] = "removed"
    /\ rctx[2] = "new"
    /\ lastOp.calls[1] = RenderCall(1, "undefined")
    /\ lastOp.calls[2].f = "getRenderCallback"

(***************************************************************************)
(* Properties of the Binding constructor and its reader                    *)
(***************************************************************************)
\* the filter ID of segment i of a source
SegmentId(source, i) == Join(FilterId(Split(source, "|")[i]))

\* some segment after the first names no key of Binding.filters
UnknownSegment(source) ==
    \E i \in 2..Len(Split(source, "|")) : SegmentId(source, i) \notin FilterKeys

\* C13: a constructor call whose source has a segment that is no key of
\* Binding.filters (after trim and without its argument), and an addFilter
\* call with such a name, fail with Binding_UnknownFilter; this includes the
\* empty name and names such as constructor and toString.
C13_UnknownFilterFails ==
    /\ (lastOp.op = "construct" /\ UnknownSegment(lastOp.src))
       => lastOp.err = "Binding_UnknownFilter"
    /\ (lastOp.op = "addFilter" /\ Join(FilterId(lastOp.src)) \notin FilterKeys)
       => lastOp.err = "Binding_UnknownFilter"

\* the lookup of one name on a value as C14 words it: the property if the
\* value has it, otherwise get(name) if the value has a get method
ClaimedLookup(v, p) ==
    IF v.t = "object" /\ p \in DOMAIN ObjectProperties(v.r) THEN ObjectProperties(v.r)[p]
    ELSE IF v.t = "object" /\ HasGetMethod(v.r) THEN GetMethod(v.r, p)
    ELSE Undefined

\* the walk as C14 words it: undefined as soon as a value is undefined or null
RECURSIVE ClaimedWalk(_, _, _)
ClaimedWalk(path, i, v) ==
    IF i > Len(path) THEN v
    ELSE IF ~NotNullish(v) THEN Undefined
    ELSE ClaimedWalk(path, i + 1, ClaimedLookup(v, path[i]))

\* a reader call on a binding with no filter and no default value
UnfilteredRead ==
    /\ lastOp.op = "getValue"
    /\ bindings[lastOp.b].chain = <<>>
    /\ bindings[lastOp.b].defaultValue = Undefined

\* C14: the reader of a binding without filters and default returns the value
\* found by looking up the top property on the bound parent and then every
\* path segment on the value before it (the property if present, otherwise
\* get(segment)), and undefined once a value on the way is undefined or null.
C14_PathLookup ==
    UnfilteredRead =>
        /\ lastOp.err = ""
        /\ lastOp.v = ClaimedWalk(bindings[lastOp.b].path, 1,
                                  ParentProperty(bindings[lastOp.b].propertyName))

\* the value of binding b after the path walk and the whole filter chain
Filtered(b) ==
    RunFilters(bound, bindings[b].chain, 1,
       WalkPath(bindings[b].path, 1,
          Eval(ParentProperty(bindings[b].propertyName), heap)))

\* d when the filtered value is undefined and d is not, otherwise the value
DefaultOr(st, d) == IF st.v = Undefined /\ d # Undefined THEN d ELSE st.v

\* C15: a reader that returns gives the default value d exactly when the
\* value after the path walk and the whole filter chain is undefined and d is
\* not undefined; otherwise (null, false, 0 and "" included) it gives the
\* filtered value unchanged.
C15_DefaultSubstitution ==
    [][\A b \in {1, 2} :
          (ReaderGetValue(b) /\ lastOp'.err = "")
          => lastOp'.v = DefaultOr(Filtered(b), bindings[b].defaultValue)]_vars

\* a binding with default "d" whose filtered value is null, returned as null
C15_Witness ==
    /\ lastOp.op = "getValue"
    /\ lastOp.err = ""
    /\ bindings[lastOp.b].defaultValue = Str(<<"d">>)
    /\ prop["p"] = Null
    /\ bindings[lastOp.b].chain = <<>>
    /\ lastOp.v = Null

\* binding 1 has a negated name and binding 2 is its rewritten form
BothForms ==
    /\ bindings[1].kind = "plain"
    /\ bindings[2].kind = "plain"
    /\ IsNegated(bindings[1].source)
    /\ bindings[2].source = RewrittenSource(bindings[1].source)

\* C16: a binding with source !p|F reads the same value as one with source
\* p|!|F, and one with !!p|F the same as one with p|!!|F, for every value of
\* the property (a reader that throws does so in both forms); propertyName is
\* the name without the leading ! characters in both.
C16_NegationSugar ==
    (BothForms /\ Evaluable(1) /\ Evaluable(2)) =>
        /\ SameResult(GetValue(bound, 1, FALSE, Undefined, heap),
                      GetValue(bound, 2, FALSE, Undefined, heap))
        /\ bindings[1].propertyName = "p"
        /\ bindings[2].propertyName = "p"

\* !!p|s and p|!!|s were both read while p was "ab": both gave "true"
C16_Witness ==
    /\ BothForms
    /\ bindings[1].source = <<"!", "!", "p", "|", "s">>
    /\ prop["p"] = Str(<<"a", "b">>)
    /\ lastOp.op = "getValue"
    /\ lastOp.b = 2
    /\ lastOp.v = Str(<<"t", "r", "u", "e">>)

\* a filter function's result a, as a value or an exception
Applied(a) == [v |-> a.v, err |-> a.err]

\* filter f applied to the result r of the filters before it
Then(r, f) == IF r.err # "" THEN r ELSE Applied(ApplyFilter(f, r.v, heap + 1))

\* the first n filters of a chain applied to v one after the other, the
\* leftmost first
RECURSIVE InOrder(_, _, _)
InOrder(chain, n, v) ==
    IF n = 0 THEN [v |-> v, err |-> ""] ELSE Then(InOrder(chain, n - 1, v), chain[n].f)

\* the reader's outcome is that of r followed by the default value d
Agrees(r, d) ==
    /\ lastOp.err = r.err
    /\ r.err = "" => lastOp.v = DefaultOr(r, d)

\* a reader call on a binding with the given source while p is "ab"
ReadOfAb(source) ==
    /\ lastOp.op = "getValue"
    /\ bindings[lastOp.b].source = source
    /\ prop["p"] = Str(<<"a", "b">>)

\* a reader call on a binding without a path
PlainRead == lastOp.op = "getValue" /\ bindings[lastOp.b].path = <<>>

\* the filters are applied left to right in the order written
LeftToRight ==
    PlainRead =>
        Agrees(InOrder(bindings[lastOp.b].chain, Len(bindings[lastOp.b].chain),
                       ParentProperty(bindings[lastOp.b].propertyName)),
               bindings[lastOp.b].defaultValue)

\* s then uc on "ab" gives "AB"
StringThenUpper ==
    ReadOfAb(<<"p", "|", "s", "|", "u", "c">>) => lastOp.v = Str(<<"A", "B">>)

\* C17: the filters of a source are applied left to right in the order
\* written; s then uc on "ab" gives "AB", and so does uc then s; the order
\* shows in other pairs: ! then s on "ab" gives the string "false", s then !
\* gives the boolean false.
C17_FilterOrder ==
    /\ LeftToRight
    /\ StringThenUpper
    /\ ReadOfAb(<<"p", "|", "u", "c", "|", "s">>) => lastOp.v = Str(<<"A", "B">>)
    /\ ReadOfAb(<<"p", "|", "!", "|", "s">>)
       => lastOp.v = Str(<<"f", "a", "l", "s", "e">>)
    /\ ReadOfAb(<<"p", "|", "s", "|", "!">>) => lastOp.v = Bool(FALSE)

\* uc then s was read while p was "ab" and gave "AB"
C17_Witness ==
    /\ ReadOfAb(<<"p", "|", "u", "c", "|", "s">>)
    /\ lastOp.err = ""
    /\ lastOp.v = Str(<<"A", "B">>)

\* C17 as stated: left to right, s then uc on "ab" gives "AB", and uc then s
\* gives a different result
C17_SwapChangesResult ==
    /\ LeftToRight
    /\ StringThenUpper
    /\ ReadOfAb(<<"p", "|", "u", "c", "|", "s">>) => lastOp.v # Str(<<"A", "B">>)

(***************************************************************************)
(* Properties of StringFormatBinding                                       *)
(***************************************************************************)
\* the ${} tags of a format text, in order
TagsOf(text) == MatchTags(text, 1)

\* tag i of the text is a ${%N} tag
IsPositionalTag(text, i) == IsPositional(Inner(TagsOf(text)[i]))

\* the N of the ${%N} tag i
PositionOf(text, i) == ParseInt(Tail(Inner(TagsOf(text)[i])))

\* some ${%N} tag of the text has no Binding at position N of rest
MissingPosition(text, rest) ==
    \E i \in DOMAIN TagsOf(text) :
        IsPositionalTag(text, i) /\ ~IsBindingArg(rest, PositionOf(text, i))

\* every other ${} tag of the text is a source the Binding constructor accepts
InlineTagsValid(text) ==
    \A i \in DOMAIN TagsOf(text) :
        IsPositionalTag(text, i) \/ Binding(Inner(TagsOf(text)[i]), Str(<<>>)).err = ""

\* C18: the StringFormatBinding constructor fails with Binding_NotABinding
\* when the text has a ${%N} tag and rest holds no Binding at position N (N
\* is 0, N is more than the number of arguments, or the argument is no
\* Binding); when every position is supplied it succeeds, and each binding
\* referred to is in the `bindings` list of the format binding.  The other
\* tags of the text are valid sources.
C18_PositionalBindingCheck ==
    (lastOp.op = "bindf" /\ InlineTagsValid(lastOp.src)) =>
        IF MissingPosition(lastOp.src, lastOp.rest)
        THEN lastOp.err = "Binding_NotABinding"
        ELSE /\ lastOp.err = ""
             /\ \A i \in DOMAIN TagsOf(lastOp.src) :
                   IsPositionalTag(lastOp.src, i) =>
                      \E k \in DOMAIN bindings[lastOp.b].subs :
                         bindings[lastOp.b].subs[k] = lastOp.rest[PositionOf(lastOp.src, i)]

\* bindf("${%1}${%3}", b1, b2) failed: there is no third argument
C18_Witness ==
    /\ lastOp.op = "bindf"
    /\ lastOp.src = <<"$", "{", "%", "1", "}", "$", "{", "%", "3", "}">>
    /\ Len(lastOp.rest) = 2
    /\ \A n \in 1..2 : IsBindingArg(lastOp.rest, n)
    /\ lastOp.err = "Binding_NotABinding"

\* sub occurs in s
Contains(s, sub) ==
    \E i \in 1..(Len(s) - Len(sub) + 1) : SubSeq(s, i, i + Len(sub) - 1) = sub

\* the opening of a ***{...}*** block
CommentOpening == <<"*", "*", "*", "{">>

\* the format reader returned a string for a text with a ***{...}*** block
ReadWithComment ==
    /\ lastOp.op = "getValue"
    /\ lastOp.err = ""
    /\ Contains(lastOp.src, CommentOpening)

\* C19: the value the reader of a format binding gives holds no ***{...}***
\* block of the text: each block is removed and the other text is kept, so
\* "a***{c}***b" reads "ab".
C19_CommentsRemoved ==
    ReadWithComment =>
        /\ ~Contains(lastOp.v.s, CommentOpening)
        /\ lastOp.src = <<"a", "*", "*", "*", "{", "c", "}", "*", "*", "*", "b">>
           => lastOp.v = Str(<<"a", "b">>)

\* the format reader returned a value for the given text
ReadOf(text) == lastOp.op = "getValue" /\ lastOp.err = "" /\ lastOp.src = text

\* the option a plural tag takes for the value v
OptionFor(v, options) == options[PluralChoice(v, Len(options))]

\* the value of the first `rest` argument, bind("p") or bind("p").and("q")
FirstArgument ==
    IF bindings[1].subs = <<>> \/ ~Truthy(prop["p"]) THEN prop["p"] ELSE prop["q"]

\* #{options} takes the value of the binding of the latest ${} tag before it
LatestTagChosen ==
    /\ ReadOf(<<"$", "{", "p", "}", "$", "{", "q", "}", "#", "{", "a", "/", "b", "}">>)
       => lastOp.v.s = JsString(prop["p"]) \o JsString(prop["q"])
                       \o OptionFor(prop["q"], <<<<"a">>, <<"b">>>>)
    /\ ReadOf(<<"$", "{", "q", "}", "$", "{", "p", "}", "#", "{", "0", "/", "1", "/", "2", "}", "$", "{", "q", "}">>)
       => lastOp.v.s = JsString(prop["q"]) \o JsString(prop["p"])
                       \o OptionFor(prop["p"], <<<<"0">>, <<"1">>, <<"2">>>>)
                       \o JsString(prop["q"])
    /\ (ReadOf(<<"$", "{", "%", "1", "}", "#", "{", "a", "/", "b", "}">>) /\ lastOp.rest[1] = 1)
       => lastOp.v.s = JsString(FirstArgument)
                       \o OptionFor(FirstArgument, <<<<"a">>, <<"b">>>>)

\* #{options} before every ${} tag takes the value of the first binding
FirstChosen ==
    ReadOf(<<"#", "{", "a", "/", "b", "}", "$", "{", "p", "}">>)
    => lastOp.v.s = OptionFor(prop["p"], <<<<"a">>, <<"b">>>>) \o JsString(prop["p"])

\* #{N:options} takes the value of the binding of the N-th ${} tag, in texts
\* with plain and with repeated tags
NthTagChosen ==
    /\ ReadOf(<<"$", "{", "p", "}", "$", "{", "q", "}", "#", "{", "1", ":", "a", "/", "b", "}">>)
       => lastOp.v.s = JsString(prop["p"]) \o JsString(prop["q"])
                       \o OptionFor(prop["p"], <<<<"a">>, <<"b">>>>)
    /\ ReadOf(<<"$", "{", "p", "}", "$", "{", "p", "}", "$", "{", "q", "}", "#", "{", "3", ":", "0", "/", "1", "/", "2", "}">>)
       => lastOp.v.s = JsString(prop["p"]) \o JsString(prop["p"])
                       \o JsString(prop["q"])
                       \o OptionFor(prop["q"], <<<<"0">>, <<"1">>, <<"2">>>>)

\* #{2:options} after ${%1}${p} takes the value of p, whether or not the
\* first argument has a binding nested in it
NthTagChosenWithNested ==
    (ReadOf(<<"$", "{", "%", "1", "}", "$", "{", "p", "}", "#", "{", "2", ":", "a", "/", "b", "}">>) /\ lastOp.rest[1] = 1)
    => lastOp.v.s = JsString(FirstArgument) \o JsString(prop["p"])
                    \o OptionFor(prop["p"], <<<<"a">>, <<"b">>>>)

\* C20: a #{options} tag is resolved with the value of the binding of the
\* latest ${} tag before it (the first binding when there is none), and a
\* #{N:options} tag with the value of the binding of the N-th ${} tag, also
\* when a binding has and / or bindings nested in it and when a tag repeats.
C20_PluralSource ==
    /\ LatestTagChosen
    /\ FirstChosen
    /\ NthTagChosen
    /\ NthTagChosenWithNested

(***************************************************************************)
(* Properties of nested bindings                                           *)
(***************************************************************************)
\* some binding nested in b has no Bound on the bound parent
SubUnbound(b) ==
    \E i \in DOMAIN bindings[b].subs : ~bound[bindings[b].subs[i]].exists

\* new Bound was called for a binding whose parent binding has no Bound
OrphanCreated ==
    /\ lastOp.op = "new"
    /\ bindings[lastOp.b].parent # None
    /\ ~bound[bindings[lastOp.b].parent].exists

\* C21: new Bound for a binding with a parent binding fails with
\* Binding_ParentNotFound when the bound parent has no Bound for the parent
\* binding, and no Bound is made; a read of the value of a format binding or
\* an and / or binding fails with Binding_NotFound when the bound parent has
\* no Bound for one of the bindings nested in it.
C21_ResolutionErrors ==
    /\ OrphanCreated
       => lastOp.err = "Binding_ParentNotFound" /\ ~bound[lastOp.b].exists
    /\ (lastOp.op = "value" /\ SubUnbound(lastOp.b))
       => lastOp.err = "Binding_NotFound"

\* the format binding was read while its second binding had no Bound
C21_Witness ==
    /\ lastOp.op = "value"
    /\ bindings[lastOp.b].kind = "format"
    /\ bound[bindings[lastOp.b].subs[1]].exists
    /\ ~bound[bindings[lastOp.b].subs[2]].exists
    /\ lastOp.err = "Binding_NotFound"

(* Properties of the and / or combinators *)
\* the filters added to a binding before .and() or .or() is called
EarlierFilters == {<<>>, <<F("!")>>, <<F("s")>>, <<F("s"), F("uc")>>}

\* the bindings made with and / or
IsCombined(b) == bindings[b].kind = "plain" /\ bindings[b].subs # <<>>

\* v && c and v || c of JavaScript
ShortCircuit(op, v, c) ==
    IF op = "and" THEN (IF Truthy(v) THEN c ELSE v)
    ELSE (IF Truthy(v) THEN v ELSE c)

\* the result r of the combined filter is v && c or v || c, v being the
\* result a of the earlier filters and c the value of the child's Bound
IsCombination(op, a, r, c) ==
    IF a.err # "" THEN r.err = a.err
    ELSE r.err = "" /\ r.v = ShortCircuit(op, a.v, c.v)

\* C22: b.and(src) and b.or(src) make a child binding with parent b that is
\* appended to b's bindings; the value is v && c respectively v || c, where
\* v is b's value after the filters added before the combinator and c is the
\* value of the child's Bound of the same bound parent.
C22_Combinators ==
    \A b \in BindingIds :
        IsCombined(b) =>
            LET e == bindings[b].chain[Len(bindings[b].chain)]
                child == bindings[b].subs[Len(bindings[b].subs)]
            IN  /\ e.child = child
                /\ bindings[child].parent = b
                /\ bindings[child].kind = "plain"
                /\ (bound[b].exists /\ bound[child].exists) =>
                     \A pre \in EarlierFilters :
                        IsCombination(e.f,
                            RunFilters(bound, pre, 1,
                                Eval(ParentProperty(bindings[b].propertyName), heap)),
                            RunFilters(bound, Append(pre, e), 1,
                                Eval(ParentProperty(bindings[b].propertyName), heap)),
                            BoundValue(bound, child, heap))

\* bind("p").and("q") was read with a truthy p and gave the value of q's Bound
C22_Witness ==
    /\ lastOp.op = "value"
    /\ lastOp.err = ""
    /\ IsCombined(lastOp.b)
    /\ bindings[lastOp.b].chain[1].f = "and"
    /\ Truthy(prop["p"])
    /\ ~bound[lastOp.b].updated
    /\ Len(lastOp.reads) = 1
    /\ lastOp.v = lastOp.reads[1].v
    /\ lastOp.v # prop["p"]

(* Properties of the events a UIModalController passes on *)
IsEvent == lastOp.op = "event"

\* the ComponentEvents the controller handles itself
IsModalEvent(e) == e.component /\ e.name \in {"ShowModal", "CloseModal"}

\* C23: a ComponentEvent named ShowModal or CloseModal that comes from a child
\* is handled (the modal is shown, respectively removed) and not propagated
\* to the controller's parent; every other ComponentEvent is propagated
\* unchanged; an event that is no ComponentEvent is not propagated.
C23_EventConsumption ==
    IsEvent =>
        IF IsModalEvent(lastOp.e)
        THEN /\ lastOp.ret = NoEvent
             /\ (lastOp.e.name = "CloseModal") => modal = None
             /\ (lastOp.e.name = "ShowModal" /\ ctl.ModalClass) =>
                    /\ modal = ctl.made
                    /\ modal # lastOp.prev
                    /\ modal \notin ctl.destroyed
        ELSE /\ lastOp.ret = (IF lastOp.e.component THEN lastOp.e ELSE NoEvent)
             /\ modal = lastOp.prev
             /\ lastOp.calls = <<>>

\* ShowModal came while a modal was shown: the modal was replaced and the
\* event went no further
C23_Witness ==
    /\ IsEvent
    /\ lastOp.e = Event(TRUE, "ShowModal")
    /\ lastOp.ret = NoEvent
    /\ lastOp.prev # None
    /\ modal # None

(* Properties of the defaults the render callback proxy sets *)
OutputFields == {"modalShadeClickToClose", "modalShadeOpacity", "placement", "placementRef"}

\* the proxy was called with an output that has an element and forwarded it
Forwarded ==
    /\ lastOp.op = "proxy"
    /\ lastOp.out = "element"
    /\ lastOp.calls # <<>>

\* the fields of the output as the proxy got it that count as set: not
\* undefined; placement and, with it, placementRef: placement not falsy
IsSet(o, f) ==
    IF f \in {"placement", "placementRef"} THEN Truthy(o.placement)
    ELSE o[f] # Undefined

\* what the controller holds for field f
ControllerValue(f) == IF f = "placementRef" THEN ReferenceComponent ELSE ctl[f]

\* C24 (amended): when the proxy forwards an output, modalShadeClickToClose
\* and modalShadeOpacity are taken from the controller where the output's
\* field is undefined, placement and placementRef both where the output's
\* placement is falsy (a placementRef the output held is then replaced);
\* every other field is forwarded unchanged.  A field the first call left
\* undefined (placement: falsy) is set again by the next call.
C24_DefaultsWhereUnset ==
    Forwarded =>
        \A f \in OutputFields :
            output[f] = IF IsSet(lastOp.given, f) THEN lastOp.given[f]
                        ELSE ControllerValue(f)

\* an output with its own modalShadeClickToClose, but without placement, was
\* forwarded: the first was kept, the placement is the controller's
C24_Witness ==
    /\ Forwarded
    /\ lastOp.given.modalShadeClickToClose = Bool(FALSE)
    /\ lastOp.given.placement = Undefined
    /\ output.modalShadeClickToClose = Bool(FALSE)
    /\ output.placement = PlacementDialog
    /\ output.placementRef = ReferenceComponent

\* C24 as stated: a field the output already held (placement: not falsy) is
\* forwarded unchanged
C24_NeverOverwrites ==
    Forwarded =>
        \A f \in OutputFields :
            (IF f = "placement" THEN Truthy(lastOp.given[f])
             ELSE lastOp.given[f] # Undefined)
                => output[f] = lastOp.given[f]

\* the same output object was forwarded twice, the controller's
\* modalShadeOpacity assigned in between: the second call left the output as
\* it was (this does not hold: a field still undefined is set again)
C24_RepeatedCallKeeps ==
    [][(/\ lastOp'.op = "proxy" /\ lastOp'.out = "element" /\ lastOp'.calls # <<>>
        /\ lastOp'.given.modalShadeClickToClose # Undefined
        /\ lastOp'.given.placementRef = ReferenceComponent)
          => output' = output]_vars

(* Properties of proxies that outlive their modal *)
\* the proxy handed to an instance that is no longer the modal shown was
\* called while another instance is shown
StaleProxyCalled ==
    /\ lastOp.op = "proxy"
    /\ lastOp.prev # None
    /\ lastOp.m # lastOp.prev

\* the calls made on the chain of the render callback the observer holds
CallsOnCurrentChain ==
    {i \in DOMAIN lastOp.calls :
        /\ lastOp.calls[i].f = "renderCallback"
        /\ lastOp.calls[i].chain = obs.renderCallback}

\* C25: the proxy handed to an earlier modal instance, called after that
\* instance was closed or replaced, neither forwards its output into the
\* render callback chain of the modal shown now nor clears controller.modal.
C25_NoCrossCycleInterference ==
    StaleProxyCalled =>
        /\ modal = lastOp.prev
        /\ lastOp.prev \in ctl.rendered => CallsOnCurrentChain = {}

(* Properties of nested bindings that observe the same property *)
\* what the reader of nested binding c computes from the property as it is
FreshValue(c) == GetValue(bound, c, FALSE, Undefined, heap).v

\* the reads of nested Bounds that visit i of the last update made
ReadsOfVisit(i) == lastOp.visits[i].reads

\* visit i called the update hooks of a Bound that has nested Bounds, on
\* behalf of one of the nested Bounds
NotifiesForChild(i) ==
    /\ lastOp.visits[i].how = "notify"
    /\ lastOp.visits[i].args # <<>>
    /\ bindings[lastOp.visits[i].b].subs # <<>>

RECURSIVE ReachesParent(_, _)
ReachesParent(b, f) ==
    IF bindings[b].parent = None THEN FALSE
    ELSE IF bindings[b].parent = f THEN TRUE
    ELSE ReachesParent(bindings[b].parent, f)

\* the Bounds the last updateComponents call went through
Visited == {lastOp.visits[i].b : i \in DOMAIN lastOp.visits}

\* the format bindings that hold binding b in their list
FormatsWith(b) ==
    {f \in FormatBindings : \E i \in DOMAIN bindings[f].subs : bindings[f].subs[i] = b}

\* C27: from every Binding in the list of a format binding, parent links lead
\* to that format binding, and a changed value of the Bound of such a Binding
\* leads to updateComponents on the format binding's Bound; also when one
\* Binding is given through ${%N} to more than one format binding.
C27_ParentChainComplete ==
    /\ \A f \in FormatBindings :
          \A i \in DOMAIN bindings[f].subs : ReachesParent(bindings[f].subs[i], f)
    /\ (/\ lastOp.op = "update"
        /\ lastOp.visits[1].how = "delegate"
        /\ bindings[lastOp.b].parent \in FormatBindings)
          => FormatsWith(lastOp.b) \subseteq Visited

(* Properties of the reader of a binding with a path *)
\* a reader call on a binding with a path and no filter
PathRead ==
    /\ lastOp.op = "getValue"
    /\ bindings[lastOp.b].path # <<>>
    /\ bindings[lastOp.b].chain = <<>>

\* the top-level value is an object that has neither the first segment of
\* the path nor a get method
FirstSegmentMissing ==
    LET top == ParentProperty(bindings[lastOp.b].propertyName)
    IN  /\ top.t = "object"
        /\ bindings[lastOp.b].path[1] \notin DOMAIN ObjectProperties(top.r)
        /\ ~HasGetMethod(top.r)

\* C28: for a binding with a nested path and no combinators the reader
\* returns a value and never throws, whatever the top-level property holds
\* (undefined, null, an object, a map-like object, a string, a number or a
\* boolean); a segment that a value on the way does not have gives undefined.
C28_ReaderTotal ==
    PathRead =>
        /\ lastOp.err = ""
        /\ (FirstSegmentMissing /\ bindings[lastOp.b].defaultValue = Undefined)
              => lastOp.v = Undefined

====
